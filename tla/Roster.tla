-------------------------------- MODULE Roster --------------------------------
(***************************************************************************)
(* Who belongs to the bots' network (host/crates/network): a log of signed *)
(* changes that every computer keeps a copy of.  Copies merge when two     *)
(* computers say hello, each works out the members from its own copy, and  *)
(* drops what can't count, so that the log stays small.                    *)
(*                                                                         *)
(* Abstractions.  A computer is its key, a number; signatures verify and   *)
(* entries are within their bounds; names are left out, and an address is  *)
(* the time it was signed.  A call takes the caller's copy along as it     *)
(* arrives, its answer is on the way for a while; a computer makes one     *)
(* call at a time, and the hellos that would tell neither side anything,   *)
(* and what is refused, are left out.                                      *)
(***************************************************************************)
EXTENDS Integers, FiniteSets

CONSTANTS
  N,               \* computers
  Founders,        \* the first of them, in the network when it starts
  MAX_PER_SIGNER,  \* entries one computer may have in the log: 256 in the code
  Skew,            \* how far a clock may be behind
  MaxSigned,       \* bound: changes signed
  MaxOthers,       \* bound: of them, moves of a computer to other addresses and recoveries
  MaxAnswers       \* bound: answers on the way at a time

ASSUME RosterAssumption ==
  /\ N \in Nat \ {0} /\ Founders \in 1..N /\ MAX_PER_SIGNER \in Nat \ {0} /\ Skew \in Nat /\ MaxSigned \in Nat
  /\ MaxOthers \in Nat /\ MaxAnswers \in Nat

Computer == 1..N
Root == 0
Nobody == -1
Kinds == {"owner", "admit", "promote", "remove", "locate"}
Time == 1..(MaxSigned + 1)
Signed == [kind : Kinds, by : Computer \cup {Root}, at : Time, id : Computer, cascade : BOOLEAN]

VARIABLES
  roster,  \* roster[c]: its copy of the log, and who is in and out by it
  answer,  \* answer[c]: the log that comes back to its hello, or its join; {}: none
  now,     \* when the newest change was signed
  others   \* moves and recoveries so far

vars == <<roster, answer, now, others>>

-----------------------------------------------------------------------------
(***************************************************************************)
(* Who is in, worked out from a log (Roster::count).                       *)
(***************************************************************************)
Later(s, q) == s.at > q.at \/ (s.at = q.at /\ s.id > q.id)
Latest(S) == CHOOSE s \in S : \A q \in S : q = s \/ Later(s, q)
LatestId(S) == IF S = {} THEN Nobody ELSE Latest(S).id
Ids(S) == {s.id : s \in S}
Of(S, kind) == {s \in S : s.kind = kind}

\* newest_locations
Newest(L) == {s \in Of(L, "locate") : \A q \in Of(L, "locate") : q.by = s.by => q.at <= s.at}

\* Fault: the owner of now is not spared.
MayRemoveM(s, then, owner) == s.by = Root \/ s.id # then
\* Only the root removes the owner, of that time or of now.
MayRemove(s, then, owner) == s.by = Root \/ s.id \notin {then, owner}

Count(L) ==
  LET namings == {s \in Of(L, "owner") : s.by = Root}
      newest == Newest(L)
      removals == Of(L, "remove")
      owner == LatestId(namings)
      ownerAt[t \in Time] == LatestId({s \in namings : s.at <= t})
      top(s) == s.by = Root \/ ownerAt[s.at] = s.by
      \* The root is above the owners, and an owner named later above the ones before.
      above(w, u) == \/ w = Root /\ u # Root
                     \/ w # Root /\ u # Root /\ w # u
                        /\ Later(Latest({s \in namings : s.id = w}), Latest({s \in namings : s.id = u}))
      tops == Ids(namings) \cup {Root}
      fromTop == {s \in removals : top(s) /\ MayRemove(s, ownerAt[s.at], owner)}
      \* One that was stolen, as one above it says, removes nobody.
      silent[u \in tops] == \E s \in fromTop : s.id = u /\ s.cascade /\ above(s.by, u) /\ ~silent[s.by]
      topRemovals == {s \in fromTop : ~silent[s.by]}
      stolen == Ids({s \in topRemovals : s.cascade})
      promotions == {s \in Of(L, "promote") : top(s) /\ s.by \notin stolen}
      promoted == Ids(promotions)
      adminAt(id, t) ==
        /\ \E s \in promotions : s.id = id /\ s.at <= t
        /\ id \notin stolen /\ \A r \in topRemovals : r.id = id => t < r.at
      adminRemovals ==
        {s \in removals : /\ adminAt(s.by, s.at)
                          /\ s.id \notin {ownerAt[s.at]} \cup promoted \cup Ids(topRemovals)}
      gone == topRemovals \cup adminRemovals
      void == Ids({s \in gone : s.cascade})
      admitted == Ids(namings) \cup Ids({s \in Of(L, "admit") : s.by \notin void /\ (top(s) \/ adminAt(s.by, s.at))})
      role(c) == IF c = owner THEN "owner" ELSE IF c \in promoted \ Ids(topRemovals) THEN "admin" ELSE "member"
  IN [members |-> [c \in admitted \ Ids(gone) |-> [role |-> role(c), addr |-> {s.at : s \in {q \in newest : q.by = c}}]],
      removed |-> Ids(gone),
      signers |-> tops \cup admitted,
      deciders |-> tops \cup promoted]

(***************************************************************************)
(* What a copy keeps (Roster::compact), and the copy it makes (rebuild).   *)
(***************************************************************************)
\* The order of one computer's entries in the log.
Rank(s) == [owner |-> 0, admit |-> 1, promote |-> 2, remove |-> 3, locate |-> 5][s.kind] + (IF s.cascade THEN 1 ELSE 0)
Before(s, q) ==
  \/ s.at < q.at
  \/ s.at = q.at /\ (s.kind # q.kind \/ s.id = q.id) /\ Rank(s) < Rank(q)
  \/ s.at = q.at /\ s.kind = q.kind /\ s.id < q.id

Compact(L, known) ==
  LET newest == Newest(L)
      counting == {s \in L : /\ s.by \in known.signers
                             /\ s.kind = "owner" => s.by = Root
                             /\ s.kind = "locate" => s.by \notin known.removed /\ s \in newest
                             /\ s.kind \notin {"owner", "locate"} => s.by \in known.deciders}
  IN IF Cardinality(counting) <= MAX_PER_SIGNER THEN counting
     ELSE {s \in counting : Cardinality({q \in counting : q.by = s.by /\ Before(q, s)}) < MAX_PER_SIGNER}

Copy(log, counted) == [log |-> log, members |-> counted.members, removed |-> counted.removed]
\* Worked out again when something was dropped.
Recounted(L, kept, known) == Copy(kept, IF kept = L THEN known ELSE Count(kept))
Rebuild(L) == LET known == Count(L) IN Recounted(L, Compact(L, known), known)

Nothing == [log |-> {}, members |-> [c \in {} |-> {}], removed |-> {}]

-----------------------------------------------------------------------------
Entry(kind, by, at, id, cascade) == [kind |-> kind, by |-> by, at |-> at, id |-> id, cascade |-> cascade]

\* create, on computer 1, once the founders joined; the others are in no network yet.
Init ==
  /\ LET first == Rebuild({Entry("owner", Root, 1, 1, FALSE)}
                          \cup {Entry("admit", 1, 1, c, FALSE) : c \in 2..Founders}
                          \cup {Entry("locate", c, 1, c, FALSE) : c \in 1..Founders})
     IN roster = [c \in Computer |-> IF c <= Founders THEN first ELSE Nothing]
  /\ answer = [c \in Computer |-> {}]
  /\ now = 1 /\ others = 0

InNetwork(c) == roster[c] # Nothing
Members(c) == DOMAIN roster[c].members
Removed(c) == roster[c].removed

\* Roster::sign: refused when it would change nothing.
Changed(r, new) == IF new.members = r.members /\ new.removed = r.removed THEN r ELSE new
Sign(r, s) == Changed(r, Rebuild(r.log \cup {s}))
\* Faults: the members are not worked out again; only entries by its own members are taken.
MergeStale(r, log) == IF log \subseteq r.log THEN r ELSE [r EXCEPT !.log = Compact(@ \cup log, Count(@ \cup log))]
MergeKnown(r, log) ==
  IF log \subseteq r.log THEN r ELSE Rebuild(r.log \cup {s \in log : s.by \in DOMAIN r.members \cup {Root}})
\* Roster::merge
Merge(r, log) == IF log \subseteq r.log THEN r ELSE Rebuild(r.log \cup log)

Times == Time \cap (now + 1 - Skew)..(now + 1)
\* The change counts, and c has it saved; it goes to the others with the hellos.
Change(c, by, kind, id, cascade) ==
  /\ now <= MaxSigned /\ now' = now + 1
  /\ \E at \in Times : roster' = [roster EXCEPT ![c] = Sign(@, Entry(kind, by, at, id, cascade))]
  /\ roster' # roster

\* Bound: c may ask another computer.
MayAsk(c) == answer[c] = {} /\ Cardinality({d \in Computer : answer[d] # {}}) < MaxAnswers

Remove(c, id, cascade) ==
  /\ id \in Members(c) \ {c}
  /\ Change(c, c, "remove", id, cascade) /\ UNCHANGED <<answer, others>>
Promote(c, id) ==
  /\ id \in Members(c)
  /\ Change(c, c, "promote", id, FALSE) /\ UNCHANGED <<answer, others>>
\* It moved.
Locate(c) ==
  /\ c \in Members(c) /\ others < MaxOthers /\ others' = others + 1
  /\ Change(c, c, "locate", c, FALSE) /\ UNCHANGED answer
\* With the recovery code, it becomes the owner.
Recover(c) ==
  /\ InNetwork(c) /\ others < MaxOthers /\ others' = others + 1
  /\ Change(c, Root, "owner", c, FALSE) /\ UNCHANGED answer

\* join, with a fresh invite: `to` signs the newcomer in and answers with its copy (admit).
Join(c, to) ==
  /\ ~InNetwork(c) /\ MayAsk(c) /\ c \notin Removed(to) /\ InNetwork(to)
  /\ Change(to, to, "admit", c, FALSE)
  /\ answer' = [answer EXCEPT ![c] = roster'[to].log] /\ UNCHANGED others
\* The newcomer keeps it, with where it is.
Welcomed(c) ==
  /\ ~InNetwork(c) /\ answer[c] # {} /\ answer' = [answer EXCEPT ![c] = {}]
  /\ \E at \in Time \cap (now - Skew)..now :
       roster' = [roster EXCEPT ![c] = Sign(Rebuild(answer[c]), Entry("locate", c, at, c, FALSE))]
  /\ UNCHANGED <<now, others>>

\* hello, to a member whose copy differs: it merges this one there, and its copy comes back.
Hello(c, to) ==
  /\ MayAsk(c) /\ to \in Members(c) \ {c} /\ c \in Members(to) /\ roster[c].log # roster[to].log
  /\ roster' = [roster EXCEPT ![to] = Merge(@, roster[c].log)]
  /\ answer' = [answer EXCEPT ![c] = roster'[to].log]
  /\ UNCHANGED <<now, others>>
Heard(c) ==
  /\ InNetwork(c) /\ answer[c] # {}
  /\ roster' = [roster EXCEPT ![c] = Merge(@, answer[c])]
  /\ answer' = [answer EXCEPT ![c] = {}] /\ UNCHANGED <<now, others>>
\* load: the copy on the disk, worked out again; or only an answer is lost, or late.
Restart(c) ==
  /\ answer[c] # {}
  /\ roster' = [roster EXCEPT ![c] = IF InNetwork(c) THEN Rebuild(@.log) ELSE @]
  /\ answer' = [answer EXCEPT ![c] = {}] /\ UNCHANGED <<now, others>>

Next ==
  \E c \in Computer :
    \/ Locate(c) \/ Recover(c) \/ Welcomed(c) \/ Heard(c) \/ Restart(c)
    \/ \E d \in Computer : \/ Promote(c, d) \/ Join(c, d) \/ Hello(c, d)
                           \/ \E cascade \in BOOLEAN : Remove(c, d, cascade)

Spec == Init /\ [][Next]_vars
-----------------------------------------------------------------------------
(***************************************************************************)
(* Properties.                                                             *)
(***************************************************************************)
\* The types; and who a copy says is in and out is what its log says.
TypeOK ==
  /\ \A c \in Computer :
       /\ roster[c].log \subseteq Signed /\ answer[c] \subseteq Signed
       /\ Members(c) \subseteq Computer /\ Removed(c) \subseteq Computer
       /\ LET counted == Count(roster[c].log)
          IN InNetwork(c) => roster[c].members = counted.members /\ roster[c].removed = counted.removed
  /\ now \in Time /\ others \in 0..MaxOthers

\* c may greet d; and what d makes of the two copies, and sends back, is what c makes of it.
MayGreet(c, d) == answer[c] = {} /\ d \in Members(c) \ {c} /\ c \in Members(d)
Agreed(c, d) == LET merged == Merge(roster[d], roster[c].log) IN Merge(roster[c], merged.log) = merged

\* A log with nothing left to drop, and one by which every admin got in and no computer is past its share.
Lean(L) == Compact(L, Count(L)) = L
Steady(L) ==
  /\ Count(L).deciders \subseteq Count(L).signers
  /\ \A c \in Computer \cup {Root} : Cardinality({s \in L : s.by = c}) <= MAX_PER_SIGNER

\* "Every computer works out the same members": one hello between two copies is enough, whatever each
\* has dropped before, when the two logs together are steady.
OneHello ==
  \A c, d \in Computer :
    MayGreet(c, d) /\ Lean(roster[c].log) /\ Lean(roster[d].log) /\ Steady(roster[c].log \cup roster[d].log)
      => Agreed(c, d)

\* "Every copy keeps only the entries that can count", and all that do: the same without the conditions.
EveryHello == \A c, d \in Computer : MayGreet(c, d) => Agreed(c, d)

\* Each copy has the newest computer the root named as the owner, and in, unless an admin's
\* removal from before that took it out.
OwnerSeated ==
  \A c \in Computer : InNetwork(c) =>
    LET naming == Latest(Of(roster[c].log, "owner"))
        seated == naming.id \in Members(c) /\ roster[c].members[naming.id].role = "owner"
        admins == Ids(Of(roster[c].log, "promote"))
    IN seated \/ \E s \in Of(roster[c].log, "remove") : s.id = naming.id /\ s.at < naming.at /\ s.by \in admins

\* "Only the root removes the current owner": the same without the exception.
OnlyRootRemovesOwner ==
  \A c \in Computer : InNetwork(c) => Latest(Of(roster[c].log, "owner")).id \in Members(c)

\* "A removed computer stays removed."
RemovedStays == [][\A c \in Computer : Removed(c) \subseteq Removed(c)']_roster

\* No hello is on its way, and none would tell anyone anything.
Settled ==
  \A c \in Computer :
    answer[c] = {} /\ \A d \in Members(c) \ {c} : c \notin Members(d) \/ roster[c].log = roster[d].log
\* Then a computer that counts another as a member is one to it, too, or was removed.
OneNetwork ==
  Settled => \A c, d \in Computer : d \in Members(c) /\ InNetwork(d) => c \in Members(d) \cup Removed(d)

\* "Only the owner and admins can" invite: they can, a computer that is in no network.
InvitesWork ==
  Skew = 0 => \A c, d \in Computer :
    ~InNetwork(c) /\ answer[c] = {} /\ c \notin Removed(d) /\ d \in Members(d) /\ roster[d].members[d].role # "member"
      => Sign(roster[d], Entry("admit", d, now + 1, c, FALSE)) # roster[d]
=============================================================================
