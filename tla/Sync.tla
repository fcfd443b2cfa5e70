-------------------------------- MODULE Sync --------------------------------
(***************************************************************************)
(* The apps' copy of the host's chats.  Every write is stamped with the    *)
(* next revision (host/src/store) and published under a lock (hub.rs); a   *)
(* client asks for what changed after the newest revision it has seen, its *)
(* cursor, and then follows the events (api/events.rs and, on the iPhone,  *)
(* BotStore+Sync.swift).                                                   *)
(*                                                                         *)
(* Abstractions.  One client.  A version of a bot or an entry is the       *)
(* revision it was written at; an entry is its seq.  Only what bots and    *)
(* entries need of an event is kept; icons, usage, the screen, artifacts   *)
(* and calls do not move the cursor and are left out, and so is a database *)
(* that was replaced by another.  A page of history is asked for and       *)
(* answered in one step.  `racing`, `atSave`, `skipped`, `strayed` and     *)
(* `partial` are history variables.                                        *)
(***************************************************************************)
EXTENDS Integers, Sequences, FiniteSets

CONSTANTS
  Bot,
  Early,       \* entries the first bot already has at the start
  CATCH_UP_PER_BOT,  \* how many entries a fresh client gets per chat, and a saved mirror keeps: 200 in the code
  Buffer,      \* events a subscriber may lag behind: 1024 in the code
  MaxRev,      \* bound: writes
  MaxEntries,  \* bound: entries ever added
  MaxDrops,    \* bound: streams that end early, the app's relaunches and the host's crashes
  MaxSaves,    \* bound: mirrors saved
  MaxRefetches \* bound: full refreshes

ASSUME SyncAssumption ==
  /\ Bot # {} /\ CATCH_UP_PER_BOT \in Nat \ {0} /\ Buffer \in Nat \ {0}
  /\ MaxEntries \in Nat /\ Early \in 0..MaxEntries /\ MaxRev \in Nat /\ MaxRev > Early /\
     MaxDrops \in Nat /\ MaxSaves \in Nat /\ MaxRefetches \in Nat

Rev == 0..MaxRev
Seqno == 1..MaxEntries
BotEvent == [t : {"bot"}, bot : Bot, rev : Rev, deleted : BOOLEAN]
EntryEvent == [t : {"entry"}, seq : Seqno, bot : Bot, rev : Rev]
Hello == [t |-> "hello"]
NoAnswer == [t |-> "none"]
Mirror == [cursor : Rev, bots : [Bot -> Rev], entries : [Seqno -> Rev]]

VARIABLES
  \* the host
  rev,      \* current_rev
  bots,     \* bots[b]: its row; rev 0: none yet
  entries,  \* entries[s]: its row; rev 0: none
  added,    \* entries added so far
  saving,   \* update_bot, create_bot: bots saved whose event is still to come
  \* the stream
  stage,    \* events_stream: how far it is with its reads
  read,     \* the bots it has read
  feed,     \* hello and the catch-up, on the way to the client
  live, lagged,  \* the broadcast's events for it, and whether some were dropped
  \* the client
  mirror,   \* its cursor and its copies; revision 0: none
  asked,    \* requestedSince
  floors,   \* windowFloors; 0: none
  answer,   \* the answer to its own send, on the way
  cache,    \* the mirror it saved last
  drops, saves, refetches,
  racing, atSave, skipped, strayed, partial

host == <<rev, bots, entries, added, saving>>
stream == <<stage, read, feed, live, lagged>>
client == <<mirror, asked, floors>>
bounds == <<drops, saves, refetches>>
history == <<racing, atSave, skipped, strayed, partial>>
vars == <<host, stream, client, answer, cache, bounds, history>>

BotOf(s) == entries[s].bot
EntriesOf(b) == {s \in Seqno : entries[s].rev # 0 /\ BotOf(s) = b}
\* The newest n of a set of entries.
Newest(n, S) == {s \in S : Cardinality({q \in S : q > s}) < n}
\* A set of events in the order of their revisions.
Sorted(E) == [i \in 1..Cardinality(E) |-> CHOOSE v \in E : Cardinality({w \in E : w.rev < v.rev}) = i - 1]

-----------------------------------------------------------------------------
(***************************************************************************)
(* The host's writes, under emit_lock with the event they publish.         *)
(***************************************************************************)
Writes == rev < MaxRev /\ rev' = rev + 1

\* Fault: no event is dropped.
PublishM(v) ==
  /\ live' = IF stage = "none" THEN live ELSE Append(live, v)
  /\ racing' = IF stage \notin {"none", "open"} /\ v.t = "bot" THEN racing \cup {v.bot} ELSE racing
  /\ UNCHANGED lagged
\* A subscriber that is too far behind loses the oldest event and will be told to resync.
Publish(v) ==
  IF stage = "none" THEN UNCHANGED <<live, lagged, racing>>
  ELSE /\ live' = IF Len(live) = Buffer THEN Tail(Append(live, v)) ELSE Append(live, v)
       /\ lagged' = (lagged \/ Len(live) = Buffer)
       /\ racing' = IF stage # "open" /\ v.t = "bot" THEN racing \cup {v.bot} ELSE racing

Exists(b) == bots[b].rev # 0 /\ ~bots[b].deleted

\* add_entry; a client of its own may have sent it.
AddEntry(b, own) ==
  /\ Writes /\ Exists(b) /\ added < MaxEntries /\ added' = added + 1
  /\ LET v == [t |-> "entry", seq |-> added + 1, bot |-> b, rev |-> rev + 1]
     IN /\ entries' = [entries EXCEPT ![added + 1] = [bot |-> b, rev |-> rev + 1]]
        /\ Publish(v)
        /\ IF own THEN mirror.bots[b] # 0 /\ answer = NoAnswer /\ answer' = v ELSE UNCHANGED answer
  /\ UNCHANGED <<bots, saving, stage, read, feed, client, cache, bounds, atSave, skipped, strayed, partial>>

\* set_entry_turn, edit_entry
EditEntry(s) ==
  /\ Writes /\ entries[s].rev # 0
  /\ entries' = [entries EXCEPT ![s].rev = rev + 1]
  /\ Publish([t |-> "entry", seq |-> s, bot |-> BotOf(s), rev |-> rev + 1])
  /\ UNCHANGED <<bots, added, saving, stage, read, feed, client, answer, cache, bounds, atSave, skipped, strayed, partial>>

\* create_bot, update_bot: saved under the lock ...
SaveBot(b) ==
  /\ Writes /\ ~bots[b].deleted /\ b \notin saving
  /\ bots' = [bots EXCEPT ![b].rev = rev + 1] /\ saving' = saving \cup {b}
  /\ UNCHANGED <<entries, added, stream, client, answer, cache, bounds, history>>

\* ... and published later; emit_bot also follows what a bot does, and finds a deleted one's row as well.
EmitBot(b) ==
  /\ Writes /\ bots[b].rev # 0
  /\ bots' = [bots EXCEPT ![b].rev = rev + 1] /\ saving' = saving \ {b}
  /\ Publish([t |-> "bot", bot |-> b, rev |-> rev + 1, deleted |-> bots[b].deleted])
  /\ UNCHANGED <<entries, added, stage, read, feed, client, answer, cache, bounds, atSave, skipped, strayed, partial>>

\* delete_bot
DeleteBot(b) ==
  /\ Writes /\ Exists(b)
  /\ bots' = [bots EXCEPT ![b] = [rev |-> rev + 1, deleted |-> TRUE]]
  /\ entries' = [s \in Seqno |-> IF s \in EntriesOf(b) THEN [entries[s] EXCEPT !.rev = 0] ELSE entries[s]]
  /\ Publish([t |-> "bot", bot |-> b, rev |-> rev + 1, deleted |-> TRUE])
  /\ UNCHANGED <<added, saving, stage, read, feed, client, answer, cache, bounds, atSave, skipped, strayed, partial>>

-----------------------------------------------------------------------------
(***************************************************************************)
(* The stream: events_stream subscribes, reads the bots, reads the entries *)
(* and sends hello and what it read, in the order of the revisions.        *)
(***************************************************************************)
BotsAfter(since) ==
  {[t |-> "bot", bot |-> b, rev |-> bots[b].rev, deleted |-> bots[b].deleted] : b \in {c \in Bot : bots[c].rev > since}}
\* entries_since: a fresh client gets each chat's newest ones.
Sent(since, b) == IF since = 0 THEN Newest(CATCH_UP_PER_BOT, EntriesOf(b)) ELSE {s \in EntriesOf(b) : entries[s].rev > since}
EntriesAfter(since) ==
  {[t |-> "entry", seq |-> s, bot |-> BotOf(s), rev |-> entries[s].rev] : s \in UNION {Sent(since, b) : b \in Bot}}

InOrder(E) == Sorted(E)

NoFloors == [b \in Bot |-> 0]

\* refetchAll
Rewound(m) == [cursor |-> 0, bots |-> m.bots, entries |-> [s \in Seqno |-> 0]]

\* runEvents; a new version of the host or the app has it fetch everything again, and a mirror saved
\* by the version before comes back only to be fetched again.
Connect(full) ==
  /\ stage = "none" /\ stage' = "subscribed"
  /\ IF full
     THEN /\ refetches < MaxRefetches /\ refetches' = refetches + 1
          /\ mirror' = Rewound(mirror) /\ cache' = Rewound(cache) /\ strayed' = {}
     ELSE UNCHANGED <<refetches, mirror, cache, strayed>>
  /\ asked' = mirror'.cursor /\ floors' = NoFloors /\ partial' = (partial \/ asked' = 0)
  /\ UNCHANGED <<host, read, feed, live, lagged, answer, drops, saves, racing, atSave, skipped>>

ReadBots ==
  /\ stage = "subscribed" /\ stage' = "bots" /\ read' = BotsAfter(asked)
  /\ UNCHANGED <<host, feed, live, lagged, client, answer, cache, bounds, history>>

ReadEntries ==
  /\ stage = "bots" /\ stage' = "open" /\ read' = {}
  /\ feed' = <<Hello>> \o InOrder(read \cup EntriesAfter(asked))
  /\ UNCHANGED <<host, live, lagged, client, answer, cache, bounds, history>>

\* What was published while the catch-up was being read may now never come.
StreamEnds ==
  /\ stage' = "none" /\ read' = {} /\ feed' = <<>> /\ live' = <<>> /\ lagged' = FALSE /\ racing' = {}

-----------------------------------------------------------------------------
(***************************************************************************)
(* The client.                                                             *)
(***************************************************************************)
HeldOf(b) == {s \in Seqno : mirror.entries[s] # 0 /\ BotOf(s) = b}
Lowest(S) == CHOOSE s \in S : \A q \in S : s <= q
Higher(a, b) == IF a >= b THEN a ELSE b

\* loadedFloors: what the mirror had when it asked.
Loaded(b) == {s \in HeldOf(b) : mirror.entries[s] <= asked}
\* Fault: every entry is put in.
OutsideM(s, b) == FALSE
\* isOutsideLoadedWindow
Outside(s, b) == floors[b] # 0 /\ s < floors[b] /\ mirror.entries[s] = 0

\* It would go in below entries that are held.
Late(s, b) == mirror.entries[s] = 0 /\ \E q \in HeldOf(b) : s < q

\* upsert: an older copy does not undo a newer one.
Upserted(copies, s, r) == [copies EXCEPT ![s] = Higher(@, r)]
Bumped(r) == Higher(mirror.cursor, r)

\* Fault: the host's revision counts as seen.
ApplyHelloM == mirror' = [mirror EXCEPT !.cursor = rev] /\ UNCHANGED <<floors, skipped, strayed>>
ApplyHello ==
  /\ floors' = IF asked > 0 THEN [b \in Bot |-> IF Loaded(b) = {} THEN 0 ELSE Lowest(Loaded(b))] ELSE NoFloors
  /\ UNCHANGED <<mirror, skipped, strayed>>

ApplyBot(v) ==
  /\ mirror' = [cursor |-> Bumped(v.rev), bots |-> [mirror.bots EXCEPT ![v.bot] = IF v.deleted THEN 0 ELSE v.rev],
                entries |-> [s \in Seqno |-> IF v.deleted /\ BotOf(s) = v.bot THEN 0 ELSE mirror.entries[s]]]
  /\ floors' = IF v.deleted THEN [floors EXCEPT ![v.bot] = 0] ELSE floors
  /\ skipped' = IF v.rev = bots[v.bot].rev THEN skipped \ {v.bot} ELSE skipped
  /\ UNCHANGED strayed

\* Without a floor an older entry goes in, whether or not the ones after it are there.
ApplyEntry(v, fresh) ==
  /\ mirror' = [cursor |-> Bumped(v.rev), bots |-> mirror.bots,
                entries |-> IF Outside(v.seq, v.bot) THEN mirror.entries ELSE Upserted(mirror.entries, v.seq, v.rev)]
  /\ strayed' = IF ~fresh /\ floors[v.bot] = 0 /\ (partial \/ Late(v.seq, v.bot)) THEN strayed \cup {v.bot} ELSE strayed
  /\ UNCHANGED <<floors, skipped>>

Apply(v, fresh) ==
  \/ v.t = "hello" /\ ApplyHello
  \/ v.t = "bot" /\ ApplyBot(v)
  \/ v.t = "entry" /\ ApplyEntry(v, fresh)

Receive ==
  /\ IF feed # <<>>
     THEN Apply(Head(feed), asked = 0) /\ feed' = Tail(feed) /\ UNCHANGED live
     ELSE stage = "open" /\ ~lagged /\ live # <<>> /\ Apply(Head(live), FALSE) /\ live' = Tail(live) /\ UNCHANGED feed
  /\ racing' = IF feed' = <<>> /\ live' = <<>> /\ ~lagged THEN {} ELSE racing
  /\ partial' = (partial /\ feed' # <<>>)
  /\ UNCHANGED <<host, stage, read, lagged, asked, answer, cache, bounds, atSave>>

\* Fault: it goes on with what it still gets.
ResyncM ==
  /\ stage = "open" /\ feed = <<>> /\ lagged /\ lagged' = FALSE
  /\ UNCHANGED <<host, stage, read, feed, live, client, answer, cache, bounds, history>>
\* It is told that it lagged and asks again.
Resync ==
  /\ stage = "open" /\ feed = <<>> /\ lagged
  /\ StreamEnds /\ skipped' = skipped \cup racing
  /\ UNCHANGED <<host, client, answer, cache, bounds, atSave, strayed, partial>>

\* A catch-up from nothing brings the newest entries alone: until it is complete, others may leave a gap.
Strays(b) == IF partial THEN strayed \cup {b} ELSE strayed

\* The answer to a send: the entry, which does not move the cursor.
Answered ==
  /\ answer # NoAnswer /\ answer' = NoAnswer
  /\ mirror' = [mirror EXCEPT !.entries = Upserted(mirror.entries, answer.seq, answer.rev)]
  /\ strayed' = IF Late(answer.seq, answer.bot) THEN strayed \cup {answer.bot} ELSE Strays(answer.bot)
  /\ UNCHANGED <<host, stream, asked, floors, cache, bounds, racing, atSave, skipped, partial>>

\* loadOlder pages from the oldest entry held.
LoadOlder(b) ==
  /\ stage = "open" /\ mirror.bots[b] # 0
  /\ LET older == {s \in EntriesOf(b) : \A q \in HeldOf(b) : s < q}
     IN /\ older # {}
        /\ mirror' = [mirror EXCEPT !.entries = [s \in Seqno |-> IF s \in Newest(1, older) THEN entries[s].rev ELSE mirror.entries[s]]]
  /\ strayed' = Strays(b)
  /\ UNCHANGED <<host, stream, asked, floors, answer, cache, bounds, racing, atSave, skipped, partial>>

\* saveCache
Save ==
  /\ saves < MaxSaves /\ saves' = saves + 1
  /\ drops < MaxDrops  \* bound: only a relaunch reads it
  /\ LET kept == UNION {Newest(CATCH_UP_PER_BOT, HeldOf(b)) : b \in Bot}
     IN cache' = [mirror EXCEPT !.entries = [s \in Seqno |-> IF s \in kept THEN mirror.entries[s] ELSE 0]]
  /\ atSave' = [racing |-> racing, partial |-> partial]
  /\ UNCHANGED <<host, stream, client, answer, drops, refetches, racing, skipped, strayed, partial>>

Fails == drops < MaxDrops /\ drops' = drops + 1
Drop ==
  /\ Fails /\ stage # "none" /\ StreamEnds /\ skipped' = skipped \cup racing
  /\ UNCHANGED <<host, client, answer, cache, saves, refetches, atSave, strayed, partial>>
\* The app comes back with the mirror it saved; one whose cursor is 0 is brought up to date from nothing.
Relaunch ==
  /\ Fails /\ StreamEnds /\ skipped' = skipped \cup racing \cup atSave.racing
  /\ mirror' = cache /\ answer' = NoAnswer /\ partial' = (atSave.partial \/ cache.cursor = 0)
  /\ UNCHANGED <<host, asked, floors, cache, saves, refetches, atSave, strayed>>
\* The host dies: what it saved and had yet to publish stays unsaid.
HostDies ==
  /\ Fails /\ StreamEnds /\ skipped' = skipped \cup racing \cup saving /\ saving' = {}
  /\ UNCHANGED <<rev, bots, entries, added, client, answer, cache, saves, refetches, atSave, strayed, partial>>

-----------------------------------------------------------------------------
First == CHOOSE b \in Bot : TRUE
Empty == [cursor |-> 0, bots |-> [b \in Bot |-> 0], entries |-> [s \in Seqno |-> 0]]
Init ==
  /\ rev = Early + 1 /\ bots = [b \in Bot |-> [rev |-> IF b = First THEN 1 ELSE 0, deleted |-> FALSE]]
  /\ entries = [s \in Seqno |-> [bot |-> First, rev |-> IF s <= Early THEN s + 1 ELSE 0]]
  /\ added = Early /\ saving = {}
  /\ stage = "none" /\ read = {} /\ feed = <<>> /\ live = <<>> /\ lagged = FALSE
  /\ mirror = Empty /\ asked = 0 /\ floors = NoFloors /\ answer = NoAnswer /\ cache = Empty
  /\ drops = 0 /\ saves = 0 /\ refetches = 0
  /\ racing = {} /\ atSave = [racing |-> {}, partial |-> TRUE] /\ skipped = {} /\ strayed = {} /\ partial = TRUE

HostStep ==
  \/ \E b \in Bot : SaveBot(b) \/ EmitBot(b) \/ DeleteBot(b)
  \/ \E b \in Bot, own \in BOOLEAN : AddEntry(b, own)
  \/ \E s \in Seqno : EditEntry(s)
Follows == Connect(FALSE) \/ ReadBots \/ ReadEntries \/ Receive \/ Resync
Next ==
  \/ HostStep \/ Follows \/ Connect(TRUE) \/ Answered \/ Save \/ Drop \/ Relaunch \/ HostDies
  \/ \E b \in Bot : LoadOlder(b)
Spec == Init /\ [][Next]_vars

\* The client goes on asking and reading.
FairSpec == Spec /\ WF_vars(Follows)

-----------------------------------------------------------------------------
Row == [bot : Bot, rev : Rev]
TypeOK ==
  /\ rev \in Rev /\ bots \in [Bot -> [rev : Rev, deleted : BOOLEAN]] /\ entries \in [Seqno -> Row]
  /\ added \in 0..MaxEntries /\ saving \subseteq Bot
  /\ stage \in {"none", "subscribed", "bots", "open"} /\ read \subseteq BotEvent
  /\ feed \in Seq(BotEvent \cup EntryEvent \cup {Hello}) /\ live \in Seq(BotEvent \cup EntryEvent)
  /\ Len(live) <= Buffer /\ lagged \in BOOLEAN
  /\ mirror \in Mirror /\ mirror.cursor <= rev /\ asked \in Rev /\ floors \in [Bot -> 0..MaxEntries]
  /\ answer \in EntryEvent \cup {NoAnswer} /\ cache \in Mirror
  /\ drops \in 0..MaxDrops /\ saves \in 0..MaxSaves /\ refetches \in 0..MaxRefetches
  /\ racing \subseteq Bot /\ atSave \in [racing : SUBSET Bot, partial : BOOLEAN] /\ skipped \subseteq Bot /\ strayed \subseteq Bot /\ partial \in BOOLEAN

\* The bot's newest event is on its way on this stream.
Coming(b) == b \in saving \/ b \in racing
BotKnown(b) == mirror.bots[b] = IF bots[b].deleted THEN 0 ELSE bots[b].rev
\* An entry is known when the mirror has its newest version, or pages it in from the oldest one held.
EntryKnown(s) == mirror.entries[s] = entries[s].rev \/ \A q \in HeldOf(BotOf(s)) : s < q

\* What the cursor has passed is in the mirror: the catch-up starts after it and never brings it again.
BotsKnown(upTo, but) == \A b \in Bot \ but : bots[b].rev \in 1..upTo => BotKnown(b)
EntriesKnown(upTo, but) ==
  \A s \in Seqno : entries[s].rev \in 1..upTo /\ BotOf(s) \notin but => EntryKnown(s)
NothingMissed == BotsKnown(mirror.cursor, {})
NoGaps == EntriesKnown(mirror.cursor, {})

\* The same, but for a bot published while a catch-up was being read on a stream that ended early,
\* or saved and not published when the host died.
CursorHonest == BotsKnown(mirror.cursor, {b \in Bot : Coming(b)} \cup skipped)
\* The same, but for a chat that got an old entry on a stream without a floor, the answer to a
\* send that a catch-up from nothing left out, or an answer or a page before a catch-up from nothing was complete.
WindowsWhole == EntriesKnown(mirror.cursor, strayed)

\* A client that follows the stream and has taken all that came has the host's chats as they are now,
\* but for those: nothing is still to come that it would have to wait for.
InStep ==
  stage = "open" /\ feed = <<>> /\ live = <<>> /\ ~lagged =>
    BotsKnown(rev, saving \cup skipped) /\ EntriesKnown(rev, strayed)

\* When the changes stop, the mirror ends up like the host, but for those.
Converges == <>[](BotsKnown(rev, saving \cup skipped) /\ EntriesKnown(rev, strayed))
=============================================================================
