----------------------------- MODULE RoomsProofs -----------------------------
(***************************************************************************)
(* Proofs about Rooms, for any members, limits and bounds.                 *)
(*                                                                         *)
(* Members speak one at a time because a turn that runs is the one its     *)
(* room turn waits for (Waited).  That lasts while no second turn of the   *)
(* same round is about, whose end would be taken for its own (Once), and   *)
(* none is sent: a member that was asked in a round is not among those to  *)
(* be asked (Fresh).  What a step makes of a room turn is said once        *)
(* (Goes).                                                                 *)
(***************************************************************************)
EXTENDS Rooms, RankLemmas, SequenceTheorems, TLAPS

-----------------------------------------------------------------------------
(* Lists. *)

\* f tells where the items kept of a list were, each in a place of its own.
From(q, K, f) ==
  /\ \A i, j \in 1..Cardinality(K) : f[i] = f[j] => i = j
  /\ \A n \in 1..Cardinality(K) : Picked(q, K)[n] = q[f[n]]

\* The items kept of a list are items of it.
LEMMA PickedIs ==
  ASSUME NEW T, NEW q \in Seq(T), NEW K \in SUBSET (1..Len(q))
  PROVE  /\ Picked(q, K) \in Seq(T) /\ Len(Picked(q, K)) = Cardinality(K)
         /\ \E f \in [1..Cardinality(K) -> K] : From(q, K, f)
<1> DEFINE Place(n) == CHOOSE k \in K : Cardinality({j \in K : j < k}) = n - 1
           f == [n \in 1..Cardinality(K) |-> Place(n)]
<1>1. K \subseteq Int /\ IsFiniteSet(K) /\ Cardinality(K) \in Nat
  <2>1. Len(q) \in Int
    OBVIOUS
  <2>2. IsFiniteSet(1..Len(q)) /\ K \subseteq Int
    BY <2>1, FS_Interval
  <2> QED
    BY <2>2, FS_Subset, FS_CardinalityType
<1>2. ASSUME NEW n \in 1..Cardinality(K)
      PROVE  Place(n) \in K /\ Cardinality({j \in K : j < Place(n)}) = n - 1
  <2>1. \E k \in K : Cardinality({j \in K : j < k}) = n - 1
    BY <1>1, PlaceExists
  <2> QED
    BY <2>1
<1>3. Picked(q, K) = [n \in 1..Cardinality(K) |-> q[Place(n)]]
  BY DEF Picked
<1> HIDE DEF Place
<1>4. f \in [1..Cardinality(K) -> K]
  BY <1>2
<1>5. \A i, j \in 1..Cardinality(K) : f[i] = f[j] => i = j
  <2>1. SUFFICES ASSUME NEW i \in 1..Cardinality(K), NEW j \in 1..Cardinality(K), Place(i) = Place(j)
                 PROVE  i = j
    OBVIOUS
  <2>2. i - 1 = j - 1
    BY <1>2, <2>1
  <2> QED
    BY <1>1, <2>2
<1>6. \A n \in 1..Cardinality(K) : q[Place(n)] \in T
  BY <1>2, ElementOfSeq
<1>7. Picked(q, K) \in Seq(T) /\ Len(Picked(q, K)) = Cardinality(K)
  BY <1>1, <1>3, <1>6
<1>8. \A n \in 1..Cardinality(K) : Picked(q, K)[n] = q[f[n]]
  BY <1>3
<1> HIDE DEF f
<1> QED
  BY <1>4, <1>5, <1>7, <1>8 DEF From

\* No list of speakers names a member twice.
Distinct(q) == \A i, j \in 1..Len(q) : q[i] = q[j] => i = j

LEMMA MembersDistinct == Distinct(Members)
<1>1. Members \in Seq(Member) /\ Cardinality(Member) = Len(Members) /\ Len(Members) \in Nat
  BY RoomsAssumption
<1>2. Members \in Surjection(1..Len(Members), Member)
  <2>1. Members \in [1..Len(Members) -> Member]
    BY <1>1
  <2> QED
    BY <2>1 DEF Surjection, Member
<1>3. IsFiniteSet(1..Len(Members)) /\ Cardinality(1..Len(Members)) = Len(Members)
  <2>1. Len(Members) \in Int
    BY <1>1
  <2>2. /\ IsFiniteSet(1..Len(Members))
        /\ Cardinality(1..Len(Members)) = IF 1 > Len(Members) THEN 0 ELSE Len(Members) - 1 + 1
    BY <2>1, FS_Interval
  <2> QED
    BY <1>1, <2>2
<1>4. Members \in Injection(1..Len(Members), Member)
  BY <1>1, <1>2, <1>3, FS_Surjection
<1> QED
  BY <1>4 DEF Injection, IsInjective, Distinct

LEMMA PickedDistinct ==
  ASSUME NEW T, NEW q \in Seq(T), NEW K \in SUBSET (1..Len(q)), Distinct(q)
  PROVE  Distinct(Picked(q, K))
<1>1. PICK f \in [1..Cardinality(K) -> K] : From(q, K, f)
  BY PickedIs
<1>2. Len(Picked(q, K)) = Cardinality(K)
  BY PickedIs
<1>3. \A n \in 1..Cardinality(K) : f[n] \in 1..Len(q)
  OBVIOUS
<1> QED
  BY <1>1, <1>2, <1>3 DEF Distinct, From

LEMMA InOrderIs ==
  ASSUME NEW S
  PROVE  InOrder(S) \in Seq(Member) /\ Distinct(InOrder(S)) /\ \A n \in 1..Len(InOrder(S)) : InOrder(S)[n] \in S
<1> DEFINE K == {i \in 1..Len(Members) : Members[i] \in S}
<1>1. K \in SUBSET (1..Len(Members)) /\ Members \in Seq(Member)
  BY RoomsAssumption
<1>2. \A k \in K : Members[k] \in S
  OBVIOUS
<1> HIDE DEF K
<1>3. PICK f \in [1..Cardinality(K) -> K] : From(Members, K, f)
  BY <1>1, PickedIs
<1>4. Picked(Members, K) \in Seq(Member) /\ Len(Picked(Members, K)) = Cardinality(K)
  BY <1>1, PickedIs
<1>5. Distinct(Picked(Members, K))
  BY <1>1, PickedDistinct, MembersDistinct
<1>6. \A n \in 1..Cardinality(K) : Members[f[n]] \in S
  BY <1>2
<1> QED
  BY <1>3, <1>4, <1>5, <1>6 DEF InOrder, K, From

\* A rotation neither loses nor repeats a member.
LEMMA ModIs ==
  ASSUME NEW a \in Nat, NEW L \in Nat, L > 0
  PROVE  a % L \in 0..(L - 1) /\ \E d \in Nat : a = d * L + (a % L)
<1>1. a = (a \div L) * L + (a % L)
  BY SMTT(60)
<1>2. a \div L \in Nat /\ a % L \in 0..(L - 1)
  OBVIOUS
<1> QED
  BY <1>1, <1>2

LEMMA RotatedIs ==
  ASSUME NEW T, NEW q \in Seq(T), NEW n \in Nat
  PROVE  /\ Rotated(q, n) \in Seq(T) /\ (Distinct(q) => Distinct(Rotated(q, n)))
         /\ \A i \in 1..Len(Rotated(q, n)) : \E j \in 1..Len(q) : Rotated(q, n)[i] = q[j]
<1> DEFINE L == Len(q)
           At(i) == ((i - 1 + n) % L) + 1
<1>1. L \in Nat
  OBVIOUS
<1> HIDE DEF L
<1>2. ASSUME NEW i \in 1..L
      PROVE  At(i) \in 1..L /\ \E d \in Nat : i - 1 + n = d * L + (At(i) - 1)
  <2>1. i - 1 + n \in Nat /\ L > 0
    BY <1>1
  <2>2. (i - 1 + n) % L \in 0..(L - 1) /\ \E d \in Nat : i - 1 + n = d * L + ((i - 1 + n) % L)
    BY <1>1, <2>1, ModIs
  <2>3. At(i) \in 1..L /\ At(i) - 1 = (i - 1 + n) % L
    BY <1>1, <2>2
  <2> QED
    BY <2>2, <2>3
<1>3. Rotated(q, n) = [i \in 1..L |-> q[At(i)]]
  BY DEF Rotated, L
<1> HIDE DEF At
<1>4. \A i \in 1..L : q[At(i)] \in T
  BY <1>2, ElementOfSeq DEF L
<1>5. Rotated(q, n) \in Seq(T) /\ Len(Rotated(q, n)) = L
  BY <1>1, <1>3, <1>4
<1>6. ASSUME NEW i \in 1..L, NEW j \in 1..L, At(i) = At(j)
      PROVE  i = j
  <2>1. PICK c \in Nat : i - 1 + n = c * L + (At(i) - 1)
    BY <1>2
  <2>2. PICK d \in Nat : j - 1 + n = d * L + (At(j) - 1)
    BY <1>2
  <2>3. At(i) \in Nat /\ i \in Nat /\ j \in Nat /\ i - j < L /\ j - i < L
    BY <1>1, <1>2
  <2>4. i - j = c * L - d * L
    BY <1>1, <1>6, <2>1, <2>2, <2>3
  <2>5. CASE c > d
    <3>1. PICK x \in Nat : c = d + 1 + x
      BY <2>5
    <3>2. c * L - d * L = L + x * L
      BY <1>1, <3>1
    <3>3. x * L \in Nat
      BY <1>1
    <3> QED
      BY <1>1, <2>3, <2>4, <3>2, <3>3
  <2>6. CASE d > c
    <3>1. PICK x \in Nat : d = c + 1 + x
      BY <2>6
    <3>2. d * L - c * L = L + x * L
      BY <1>1, <3>1
    <3>3. x * L \in Nat /\ c * L \in Nat /\ d * L \in Nat
      BY <1>1
    <3> QED
      BY <1>1, <2>3, <2>4, <3>2, <3>3
  <2>7. CASE c = d
    BY <1>1, <2>3, <2>4, <2>7
  <2> QED
    BY <2>5, <2>6, <2>7
<1>7. Distinct(q) => Distinct(Rotated(q, n))
  <2>1. SUFFICES ASSUME Distinct(q), NEW i \in 1..L, NEW j \in 1..L, Rotated(q, n)[i] = Rotated(q, n)[j]
                 PROVE  i = j
    BY <1>5 DEF Distinct
  <2>2. q[At(i)] = q[At(j)] /\ At(i) \in 1..Len(q) /\ At(j) \in 1..Len(q)
    BY <1>2, <1>3, <2>1 DEF L
  <2>3. At(i) = At(j)
    BY <2>1, <2>2 DEF Distinct
  <2> QED
    BY <1>6, <2>3
<1>8. \A i \in 1..Len(Rotated(q, n)) : \E j \in 1..Len(q) : Rotated(q, n)[i] = q[j]
  BY <1>2, <1>3, <1>5 DEF L
<1> QED
  BY <1>5, <1>7, <1>8

-----------------------------------------------------------------------------
(* The room's turns for a member, on their way to it. *)

\* A turn the room waits for.
Ask == {t \in GroupTurn : ~t.late}
In(q, t) == \E i \in GroupAt(q) : q[i].turn = t
OnceIn(q) == \A i, j \in GroupAt(q) : ~q[i].turn.late /\ q[i].turn = q[j].turn => i = j

LEMMA ItemsAreCommands == Item \subseteq Command
  BY DEF Item, Command

LEMMA GroupItem ==
  ASSUME NEW item \in Command, item.cmd = "group"
  PROVE  item \in Item /\ item.turn \in GroupTurn
  BY DEF Item, Command

LEMMA TurnsInType ==
  ASSUME NEW q \in Seq(Command)
  PROVE  TurnsIn(q) \subseteq GroupTurn /\ \A t : t \in TurnsIn(q) <=> In(q, t)
<1>1. \A i \in 1..Len(q) : q[i] \in Command
  BY ElementOfSeq
<1> QED
  BY <1>1, GroupItem DEF TurnsIn, GroupAt, In

LEMMA AppendIs ==
  ASSUME NEW q \in Seq(Command), NEW c \in Command
  PROVE  /\ Append(q, c) \in Seq(Command)
         /\ \A t : In(Append(q, c), t) <=> In(q, t) \/ (c.cmd = "group" /\ c.turn = t)
         /\ OnceIn(q) /\ (c.cmd = "group" /\ ~c.turn.late => ~In(q, c.turn)) => OnceIn(Append(q, c))
<1> DEFINE a == Append(q, c)
           n == Len(q)
<1>1. /\ n \in Nat /\ a \in Seq(Command) /\ Len(a) = n + 1 /\ a[n + 1] = c
      /\ \A i \in 1..n : a[i] = q[i]
  BY AppendProperties
<1> HIDE DEF a, n
<1>2. \A i : i \in GroupAt(a) <=> i \in GroupAt(q) \/ (i = n + 1 /\ c.cmd = "group")
  <2>1. 1..(n + 1) = 1..n \cup {n + 1} /\ n + 1 \notin 1..n
    BY <1>1
  <2> QED
    BY <1>1, <2>1 DEF GroupAt, n
<1>3. \A i \in GroupAt(q) : i \in 1..n /\ a[i] = q[i] /\ i # n + 1
  BY <1>1 DEF GroupAt, n
<1>4. \A t : In(a, t) <=> In(q, t) \/ (c.cmd = "group" /\ c.turn = t)
  BY <1>1, <1>2, <1>3 DEF In
<1>5. OnceIn(q) /\ (c.cmd = "group" /\ ~c.turn.late => ~In(q, c.turn)) => OnceIn(a)
  BY <1>1, <1>2, <1>3 DEF In, OnceIn
<1> QED
  BY <1>1, <1>4, <1>5 DEF a

LEMMA TailIs ==
  ASSUME NEW q \in Seq(Command), q # <<>>
  PROVE  /\ Head(q) \in Command /\ Tail(q) \in Seq(Command) /\ q[1] = Head(q)
         /\ \A t : In(Tail(q), t) => In(q, t)
         /\ Head(q).cmd = "group" => In(q, Head(q).turn)
         /\ OnceIn(q) => OnceIn(Tail(q))
         /\ OnceIn(q) /\ Head(q).cmd = "group" /\ ~Head(q).turn.late => ~In(Tail(q), Head(q).turn)
<1>1. /\ Len(q) \in Nat /\ Len(q) > 0 /\ Tail(q) \in Seq(Command) /\ Len(Tail(q)) = Len(q) - 1
      /\ \A i \in 1..(Len(q) - 1) : Tail(q)[i] = q[i + 1]
      /\ Head(q) = q[1] /\ q[1] \in Command
  BY EmptySeq, HeadTailProperties, ElementOfSeq
<1>2. \A i \in GroupAt(Tail(q)) : i \in Nat /\ i + 1 \in GroupAt(q) /\ Tail(q)[i] = q[i + 1] /\ i + 1 # 1
  BY <1>1 DEF GroupAt
<1>3. Head(q).cmd = "group" => 1 \in GroupAt(q)
  BY <1>1 DEF GroupAt
<1>4. \A t : In(Tail(q), t) => In(q, t)
  BY <1>2 DEF In
<1>5. OnceIn(q) => OnceIn(Tail(q))
  <2>1. SUFFICES ASSUME OnceIn(q), NEW i \in GroupAt(Tail(q)), NEW j \in GroupAt(Tail(q)),
                        ~Tail(q)[i].turn.late, Tail(q)[i].turn = Tail(q)[j].turn
                 PROVE  i = j
    BY DEF OnceIn
  <2>2. i + 1 = j + 1
    BY <1>2, <2>1 DEF OnceIn
  <2> QED
    BY <1>2, <2>2
<1>6. OnceIn(q) /\ Head(q).cmd = "group" /\ ~Head(q).turn.late => ~In(Tail(q), Head(q).turn)
  BY <1>1, <1>2, <1>3 DEF In, OnceIn
<1> QED
  BY <1>1, <1>3, <1>4, <1>5, <1>6 DEF In

LEMMA PickedOnce ==
  ASSUME NEW q \in Seq(Item), NEW K \in SUBSET (1..Len(q))
  PROVE  /\ Picked(q, K) \in Seq(Item)
         /\ \A t : In(Picked(q, K), t) => In(q, t)
         /\ OnceIn(q) => OnceIn(Picked(q, K))
         /\ K \cap GroupAt(q) = {} => \A t : ~In(Picked(q, K), t)
<1> DEFINE C == Cardinality(K)
           p == Picked(q, K)
<1>1. p \in Seq(Item) /\ Len(p) = C
  BY PickedIs
<1>2. PICK f \in [1..C -> K] : From(q, K, f)
  BY PickedIs
<1>3. /\ \A i, j \in 1..C : f[i] = f[j] => i = j
      /\ \A n \in 1..C : p[n] = q[f[n]]
  BY <1>2 DEF From
<1> HIDE DEF p, C
<1>4. \A i \in GroupAt(p) : i \in 1..C /\ f[i] \in GroupAt(q) /\ f[i] \in K /\ p[i] = q[f[i]]
  BY <1>1, <1>3 DEF GroupAt
<1>5. /\ \A t : In(p, t) => In(q, t)
      /\ OnceIn(q) => OnceIn(p)
      /\ K \cap GroupAt(q) = {} => \A t : ~In(p, t)
  BY <1>3, <1>4 DEF In, OnceIn
<1> QED
  BY <1>1, <1>5 DEF p

-----------------------------------------------------------------------------
(* Types. *)

\* A room turn that is about to ask, or waits, has somebody to ask and is not full.
Sends == \A e \in Epoch : run[e].at \in {"send", "wait"} => run[e].left # <<>> /\ run[e].replies < MAX_REPLIES
Typed == TypeOK /\ Sends

\* The room turn of epoch e no longer waits for the one it asked.
GoesOn(e, m) ==
  /\ run[e].at = "wait" /\ run[e].left # <<>> /\ Head(run[e].left) = m
  /\ run'[e].at = "check" /\ run'[e].left = Tail(run[e].left)
  /\ run'[e].round = run[e].round /\ run'[e].asked = run[e].asked

LEMMA AnsweredRun ==
  ASSUME Typed, NEW m \in Member, NEW T \in SUBSET GroupTurn, NEW spoke \in BOOLEAN, Answered(m, T, spoke)
  PROVE  /\ run' \in [Epoch -> Run]
         /\ \A e \in Epoch : run'[e] = run[e] \/ (GoesOn(e, m) /\ \E t \in T : t.epoch = e /\ Awaits(t, m))
         /\ Sends'
<1>1. ASSUME NEW e \in Epoch
      PROVE  /\ run'[e] \in Run
             /\ run'[e] = run[e] \/ (GoesOn(e, m) /\ \E t \in T : t.epoch = e /\ Awaits(t, m))
  <2>1. run[e] \in Run
    BY DEF Typed, TypeOK
  <2>2. CASE \E t \in T : t.epoch = e /\ Awaits(t, m)
    <3>1. run[e].at = "wait" /\ Head(run[e].left) = m
      BY <2>2 DEF Awaits
    <3>2. run[e].left # <<>> /\ run[e].replies < MAX_REPLIES /\ run[e].replies \in Nat /\ run[e].left \in Seq(Member)
      BY <2>1, <3>1 DEF Typed, Sends, Run
    <3>3. Tail(run[e].left) \in Seq(Member)
      BY <3>2, HeadTailProperties
    <3>4. run'[e] = [run[e] EXCEPT !.at = "check", !.left = Tail(@), !.spoke = @ \/ spoke,
                                   !.replies = IF spoke THEN @ + 1 ELSE @]
      BY <2>2 DEF Answered
    <3>5. run[e].replies + 1 \in 0..MAX_REPLIES
      BY <3>2, RoomsAssumption
    <3>6. run'[e] \in Run
      BY <2>1, <3>3, <3>4, <3>5 DEF Run
    <3> QED
      BY <2>1, <2>2, <3>1, <3>2, <3>4, <3>6 DEF GoesOn, Run
  <2>3. CASE ~ \E t \in T : t.epoch = e /\ Awaits(t, m)
    <3>1. run'[e] = run[e]
      BY <2>3 DEF Answered
    <3> QED
      BY <2>1, <3>1
  <2> QED
    BY <2>2, <2>3
<1>2. run' \in [Epoch -> Run]
  <2>1. DOMAIN run' = Epoch /\ run' = [e \in Epoch |-> run'[e]]
    BY DEF Answered
  <2> QED
    BY <1>1, <2>1
<1>3. Sends'
  BY <1>1 DEF Typed, Sends, GoesOn
<1> QED
  BY <1>1, <1>2, <1>3

LEMMA RespondersAreMembers == TypeOK => Responders \subseteq Member /\ \A asked : Cited(asked) \subseteq Member
<1>1. SUFFICES ASSUME TypeOK PROVE Responders \subseteq Member
  BY DEF Cited
<1>2. \A i \in SinceUser : log[i].names \subseteq Member
  <2>1. \A i \in 1..Len(log) : log[i] \in Message
    BY <1>1, ElementOfSeq DEF TypeOK
  <2> QED
    BY <2>1 DEF SinceUser, Message
<1> QED
  BY <1>2 DEF Responders

LEMMA TypeInit == Init => Typed
<1>1. ASSUME Init PROVE TypeOK
  <2>1. NewRun \in Run
    BY RoomsAssumption DEF NewRun, Run, Round
  <2>2. Idle \in Turn
    BY DEF Idle, Turn
  <2> QED
    BY <1>1, <2>1, <2>2, RoomsAssumption, EmptySeq DEF Init, TypeOK
<1> QED
  BY <1>1 DEF Init, Typed, Sends, NewRun

LEMMA FinishedIs ==
  ASSUME NEW r \in Run
  PROVE  Finished(r) \in Run /\ Finished(r).at = "over" /\ Finished(r).left = <<>> /\ Finished(r).round = r.round
<1>1. <<>> \in Seq(Member) /\ (r.replies > 0) \in BOOLEAN
  BY EmptySeq
<1> QED
  BY <1>1 DEF Finished, Run

\* The room turn's own steps.
LEMMA TypeRoom ==
  ASSUME Typed, NEW e \in Epoch, RoomStep(e) \/ TimeOut(e)
  PROVE  run' \in [Epoch -> Run] /\ Sends'
<1>1. run[e] \in Run /\ run \in [Epoch -> Run] /\ run[e].left \in Seq(Member)
  BY DEF Typed, TypeOK, Run
<1>2. run[e].left # <<>> => Head(run[e].left) \in Member /\ Tail(run[e].left) \in Seq(Member)
  BY <1>1, HeadTailProperties
<1>3. <<>> \in Seq(Member)
  BY EmptySeq
<1>4. \A r : run' = [run EXCEPT ![e] = r] => run' = [run EXCEPT ![e] = run'[e]] /\ run'[e] = r
  BY <1>1
<1>5. ASSUME run' = [run EXCEPT ![e] = run'[e]], run'[e] \in Run,
             run'[e].at \in {"send", "wait"} => run'[e].left # <<>> /\ run'[e].replies < MAX_REPLIES
      PROVE  run' \in [Epoch -> Run] /\ Sends'
  <2>1. run' \in [Epoch -> Run]
    BY <1>1, <1>5
  <2>2. \A d \in Epoch : d # e => run'[d] = run[d]
    BY <1>1, <1>5
  <2> QED
    BY <1>5, <2>1, <2>2 DEF Typed, Sends
<1>6. CASE StartRound(e)
  <2> DEFINE speakers == InOrder(IF run[e].round = 0 THEN Responders ELSE Cited(run[e].asked))
             r == [run[e] EXCEPT !.at = "check", !.left = Rotated(speakers, run[e].round), !.spoke = FALSE]
  <2>1. speakers \in Seq(Member)
    BY InOrderIs
  <2>2. run[e].round \in Nat
    BY <1>1, RoomsAssumption DEF Run, Round
  <2> HIDE DEF speakers
  <2>3. Rotated(speakers, run[e].round) \in Seq(Member)
    BY <2>1, <2>2, RotatedIs
  <2>4. run' = [run EXCEPT ![e] = r]
    BY <1>6 DEF StartRound, speakers
  <2>5. r \in Run /\ r.at = "check"
    BY <1>1, <2>3 DEF Run
  <2> HIDE DEF r
  <2> QED
    BY <1>4, <1>5, <2>4, <2>5
<1>7. CASE EndRound(e)
  <2>1. CASE run[e].spoke /\ run[e].round + 1 < MAX_ROUNDS
    <3> DEFINE r == NextRound(run[e])
    <3>1. run' = [run EXCEPT ![e] = r]
      BY <1>7, <2>1 DEF EndRound
    <3>2. run[e].round + 1 \in Round
      BY <1>1, <2>1, RoomsAssumption DEF Run, Round
    <3>3. r \in Run /\ r.at = "round"
      BY <1>1, <3>2 DEF Run, NextRound
    <3> HIDE DEF r
    <3> QED
      BY <1>4, <1>5, <3>1, <3>3
  <2>2. CASE ~(run[e].spoke /\ run[e].round + 1 < MAX_ROUNDS)
    <3>1. run' = [run EXCEPT ![e] = Finished(run[e])]
      BY <1>7, <2>2 DEF EndRound
    <3> QED
      BY <1>1, <1>4, <1>5, <3>1, FinishedIs
  <2> QED
    BY <2>1, <2>2
<1>8. CASE Check(e)
  <2> DEFINE m == Head(run[e].left)
             r == IF ~Current(e) THEN [run[e] EXCEPT !.at = "over", !.left = <<>>]
                  ELSE IF Full(run[e]) THEN Finished(run[e])
                  ELSE IF m \in run[e].later THEN Skipped(run[e])
                  ELSE [run[e] EXCEPT !.at = "send", !.asked[m] = Len(log), !.busy = BusyElsewhere(m)]
  <2>1. run' = [run EXCEPT ![e] = r]
    BY <1>8 DEF Check
  <2>2. run[e].at = "check" /\ run[e].left # <<>> /\ Len(log) \in Nat
    BY <1>8 DEF Check, Typed, TypeOK
  <2>3. BusyElsewhere(m) \in BOOLEAN
    BY DEF BusyElsewhere
  <2>4. CASE ~Current(e)
    <3>1. r = [run[e] EXCEPT !.at = "over", !.left = <<>>]
      BY <2>4
    <3>2. r \in Run /\ r.at = "over"
      BY <1>1, <1>3, <3>1 DEF Run
    <3> HIDE DEF r
    <3> QED
      BY <1>4, <1>5, <2>1, <3>2
  <2>5. CASE Current(e) /\ Full(run[e])
    <3>1. r = Finished(run[e])
      BY <2>5
    <3>2. r \in Run /\ r.at = "over"
      BY <1>1, <3>1, FinishedIs
    <3> HIDE DEF r
    <3> QED
      BY <1>4, <1>5, <2>1, <3>2
  <2>6. CASE Current(e) /\ ~Full(run[e]) /\ m \in run[e].later
    <3>1. r = Skipped(run[e])
      BY <2>6
    <3>2. r \in Run /\ r.at = "check"
      BY <1>1, <1>2, <2>2, <3>1 DEF Run, Skipped
    <3> HIDE DEF r
    <3> QED
      BY <1>4, <1>5, <2>1, <3>2
  <2>7. CASE Current(e) /\ ~Full(run[e]) /\ m \notin run[e].later
    <3>1. r = [run[e] EXCEPT !.at = "send", !.asked[m] = Len(log), !.busy = BusyElsewhere(m)]
      BY <2>7
    <3>2. r \in Run /\ r.at = "send" /\ r.left = run[e].left /\ r.replies = run[e].replies
      <4>1. m \in Member /\ [run[e].asked EXCEPT ![m] = Len(log)] \in [Member -> Nat]
        BY <1>1, <1>2, <2>2 DEF Run
      <4>2. r = [run[e] EXCEPT !.at = "send", !.asked = [run[e].asked EXCEPT ![m] = Len(log)], !.busy = BusyElsewhere(m)]
        BY <1>1, <3>1 DEF Run
      <4> HIDE DEF r, m
      <4> QED
        BY <1>1, <2>3, <4>1, <4>2 DEF Run
    <3>3. run[e].replies < MAX_REPLIES
      BY <1>1, <2>7, RoomsAssumption DEF Run, Full
    <3> HIDE DEF r
    <3> QED
      BY <1>4, <1>5, <2>1, <2>2, <3>2, <3>3
  <2> QED
    BY <2>4, <2>5, <2>6, <2>7
<1>9. CASE SendTurn(e)
  <2>1. run[e].left # <<>> /\ run[e].replies < MAX_REPLIES
    BY <1>9 DEF SendTurn, Typed, Sends
  <2>2. CASE run[e].busy
    <3> DEFINE r == AnswersLater(run[e])
    <3>1. run' = [run EXCEPT ![e] = r]
      BY <1>9, <2>2 DEF SendTurn
    <3>2. r \in Run /\ r.at = "check"
      BY <1>1, <1>2, <2>1 DEF Run, AnswersLater
    <3> HIDE DEF r
    <3> QED
      BY <1>4, <1>5, <3>1, <3>2
  <2>3. CASE ~run[e].busy
    <3> DEFINE r == [run[e] EXCEPT !.at = "wait"]
    <3>1. run' = [run EXCEPT ![e] = r]
      BY <1>9, <2>3 DEF SendTurn
    <3>2. r \in Run /\ r.replies = run[e].replies /\ r.left = run[e].left
      BY <1>1 DEF Run
    <3> HIDE DEF r
    <3> QED
      BY <1>4, <1>5, <2>1, <3>1, <3>2
  <2> QED
    BY <2>2, <2>3
<1>10. CASE TimeOut(e)
  <2> DEFINE r == TimedOut(run[e])
  <2>1. run' = [run EXCEPT ![e] = r] /\ run[e].at = "wait"
    BY <1>10 DEF TimeOut
  <2>2. r \in Run /\ r.at = "check"
    BY <1>1, <1>2, <2>1 DEF Run, TimedOut, Typed, Sends
  <2> HIDE DEF r
  <2> QED
    BY <1>4, <1>5, <2>1, <2>2
<1> QED
  BY <1>6, <1>7, <1>8, <1>9, <1>10 DEF RoomStep

\* A member's actor: what it takes and keeps is well typed.
LEMMA QueueTyped ==
  ASSUME TypeOK, NEW m \in Member
  PROVE  /\ queue[m] \in Seq(Item) /\ queue[m] \in Seq(Command) /\ mailbox[m] \in Seq(Command)
         /\ mailbox[m] # <<>> => Head(mailbox[m]) \in Command /\ Tail(mailbox[m]) \in Seq(Command)
         /\ queue[m] # <<>> => Head(queue[m]) \in Item /\ Tail(queue[m]) \in Seq(Item)
<1>1. queue[m] \in Seq(Item) /\ mailbox[m] \in Seq(Command)
  BY DEF TypeOK
<1>2. queue[m] \in Seq(Command)
  BY <1>1, ItemsAreCommands, ElementOfSeq
<1> QED
  BY <1>1, <1>2, HeadTailProperties

LEMMA MailboxTyped ==
  ASSUME TypeOK, NEW m \in Member
  PROVE  /\ \A c \in Command : Tell(m, c) => mailbox' \in [Member -> Seq(Command)]
         /\ \A cmd : Take(m, cmd) => mailbox' \in [Member -> Seq(Command)]
<1>1. ASSUME NEW c \in Command, Tell(m, c) PROVE mailbox' \in [Member -> Seq(Command)]
  <2>1. Append(mailbox[m], c) \in Seq(Command)
    BY QueueTyped, AppendProperties
  <2> QED
    BY <1>1, <2>1 DEF Tell, TypeOK
<1>2. ASSUME NEW cmd, Take(m, cmd) PROVE mailbox' \in [Member -> Seq(Command)]
  <2>1. Tail(mailbox[m]) \in Seq(Command)
    BY <1>2, QueueTyped DEF Take
  <2> QED
    BY <1>2, <2>1 DEF Take, TypeOK
<1> QED
  BY <1>1, <1>2

LEMMA QueueKept ==
  ASSUME TypeOK, NEW m \in Member
  PROVE  /\ WithoutGroup(queue[m]) \in Seq(Item) /\ WithoutGroup(queue[m]) \in Seq(Command)
         /\ \A t : ~In(WithoutGroup(queue[m]), t)
         /\ Picked(queue[m], KeptAt(queue[m])) \in Seq(Item)
         /\ \A t : In(Picked(queue[m], KeptAt(queue[m])), t) => In(queue[m], t)
         /\ OnceIn(queue[m]) => OnceIn(Picked(queue[m], KeptAt(queue[m])))
         /\ AnsweredByStop(m) \in SUBSET GroupTurn /\ TurnsIn(queue[m]) \in SUBSET GroupTurn
         /\ \A t \in AnsweredByStop(m) : In(queue[m], t)
<1>1. queue[m] \in Seq(Item) /\ queue[m] \in Seq(Command)
  BY QueueTyped
<1>2. /\ KeptAt(queue[m]) \in SUBSET (1..Len(queue[m]))
      /\ (1..Len(queue[m])) \ GroupAt(queue[m]) \in SUBSET (1..Len(queue[m]))
      /\ ((1..Len(queue[m])) \ GroupAt(queue[m])) \cap GroupAt(queue[m]) = {}
  BY DEF KeptAt
<1>3. WithoutGroup(queue[m]) \in Seq(Item) /\ \A t : ~In(WithoutGroup(queue[m]), t)
  BY <1>1, <1>2, PickedOnce DEF WithoutGroup
<1>4. /\ Picked(queue[m], KeptAt(queue[m])) \in Seq(Item)
      /\ \A t : In(Picked(queue[m], KeptAt(queue[m])), t) => In(queue[m], t)
      /\ OnceIn(queue[m]) => OnceIn(Picked(queue[m], KeptAt(queue[m])))
  BY <1>1, <1>2, PickedOnce
<1>5. TurnsIn(queue[m]) \in SUBSET GroupTurn /\ AnsweredByStop(m) \subseteq TurnsIn(queue[m])
  BY <1>1, TurnsInType DEF AnsweredByStop, TurnsIn
<1>6. \A t \in AnsweredByStop(m) : In(queue[m], t)
  BY <1>1, <1>5, TurnsInType
<1>7. WithoutGroup(queue[m]) \in Seq(Command)
  BY <1>3, ItemsAreCommands, ElementOfSeq
<1> QED
  BY <1>3, <1>4, <1>5, <1>6, <1>7

LEMMA TypeActor ==
  ASSUME Typed, NEW m \in Member, ActorStep(m)
  PROVE  TypeOK' /\ Sends'
<1>1. /\ queue[m] \in Seq(Item) /\ mailbox[m] \in Seq(Command)
      /\ mailbox[m] # <<>> => Head(mailbox[m]) \in Command
      /\ queue[m] # <<>> => Head(queue[m]) \in Item /\ Tail(queue[m]) \in Seq(Item)
      /\ queue \in [Member -> Seq(Item)] /\ turn \in [Member -> Turn] /\ TypeOK
  BY QueueTyped DEF Typed, TypeOK
<1>2. \A cmd : Take(m, cmd) => mailbox' \in [Member -> Seq(Command)]
  BY MailboxTyped DEF Typed
<1>3. ASSUME run' = run PROVE run' \in [Epoch -> Run] /\ Sends'
  BY <1>3 DEF Typed, TypeOK, Sends
<1>4. turn[m] \in Turn
  BY <1>1
<1>5. CASE HandleOwn(m)
  <2>1. Append(queue[m], [cmd |-> "own"]) \in Seq(Item)
    BY <1>1, AppendProperties DEF Item
  <2>2. queue' \in [Member -> Seq(Item)]
    BY <1>1, <1>5, <2>1 DEF HandleOwn
  <2>3. mailbox' \in [Member -> Seq(Command)] /\ run' = run
    BY <1>2, <1>5 DEF HandleOwn
  <2> QED
    BY <1>3, <1>5, <2>2, <2>3 DEF HandleOwn, Typed, TypeOK, bounds, history
<1>6. CASE HandleGroup(m)
  <2>1. Head(mailbox[m]) \in Item
    BY <1>1, <1>6, GroupItem DEF HandleGroup, Take
  <2>2. Append(WithoutGroup(queue[m]), Head(mailbox[m])) \in Seq(Item)
    BY <1>1, <2>1, QueueKept, AppendProperties
  <2>3. queue' \in [Member -> Seq(Item)]
    BY <1>1, <1>6, <2>2 DEF HandleGroup
  <2>4. mailbox' \in [Member -> Seq(Command)]
    BY <1>2, <1>6 DEF HandleGroup
  <2>5. run' \in [Epoch -> Run] /\ Sends'
    <3>1. Answered(m, TurnsIn(queue[m]), FALSE)
      BY <1>6 DEF HandleGroup
    <3> QED
      BY <1>1, <3>1, QueueKept, AnsweredRun
  <2> QED
    BY <1>6, <2>3, <2>4, <2>5 DEF HandleGroup, Typed, TypeOK, bounds
<1>7. CASE HandleCancel(m)
  <2>1. Head(mailbox[m]).epoch \in 0..MaxEpochs
    <3>1. Head(mailbox[m]) \in Command /\ Head(mailbox[m]).cmd = "cancel"
      BY <1>1, <1>7 DEF HandleCancel, Take
    <3>2. Head(mailbox[m]).epoch \in Epoch
      BY <3>1 DEF Command, Item
    <3> QED
      BY <3>2, RoomsAssumption DEF Epoch
  <2>2. queue' \in [Member -> Seq(Item)]
    BY <1>1, <1>7, QueueKept DEF HandleCancel
  <2>3. mailbox' \in [Member -> Seq(Command)]
    BY <1>2, <1>7 DEF HandleCancel
  <2>4. run' \in [Epoch -> Run] /\ Sends'
    <3>1. Answered(m, TurnsIn(queue[m]), FALSE)
      BY <1>7 DEF HandleCancel
    <3> QED
      BY <1>1, <3>1, QueueKept, AnsweredRun
  <2>5. turn' \in [Member -> Turn]
    <3>1. [turn[m] EXCEPT !.stop = @ \/ turn[m].kind = "group"] \in Turn
      BY <1>4 DEF Turn
    <3>2. turn' = [turn EXCEPT ![m] = [turn[m] EXCEPT !.stop = @ \/ turn[m].kind = "group"]]
      BY <1>1, <1>7 DEF HandleCancel
    <3> QED
      BY <1>1, <3>1, <3>2
  <2>6. cancelled' \in [Member -> 0..MaxEpochs]
    BY <1>7, <2>1 DEF HandleCancel, Typed, TypeOK
  <2> QED
    BY <1>7, <2>2, <2>3, <2>4, <2>5, <2>6 DEF HandleCancel, Typed, TypeOK, bounds
<1>8. CASE HandleStop(m)
  <2>1. queue' \in [Member -> Seq(Item)]
    BY <1>1, <1>8, QueueKept DEF HandleStop
  <2>2. mailbox' \in [Member -> Seq(Command)]
    BY <1>2, <1>8 DEF HandleStop
  <2>3. run' \in [Epoch -> Run] /\ Sends'
    <3>1. Answered(m, AnsweredByStop(m), FALSE)
      BY <1>8 DEF HandleStop
    <3> QED
      BY <1>1, <3>1, QueueKept, AnsweredRun
  <2>4. turn' \in [Member -> Turn]
    <3>1. [turn[m] EXCEPT !.stop = turn[m].kind # "idle"] \in Turn
      BY <1>4 DEF Turn
    <3> QED
      BY <1>1, <1>8, <3>1 DEF HandleStop
  <2> QED
    BY <1>8, <2>1, <2>2, <2>3, <2>4 DEF HandleStop, Typed, TypeOK, bounds, history
<1>9. CASE StartOwn(m)
  <2>1. queue' \in [Member -> Seq(Item)]
    BY <1>1, <1>9 DEF StartOwn
  <2>2. [Idle EXCEPT !.kind = "own"] \in Turn
    BY DEF Idle, Turn
  <2>3. turn' \in [Member -> Turn] /\ run' = run
    BY <1>1, <1>9, <2>2 DEF StartOwn
  <2> QED
    BY <1>3, <1>9, <2>1, <2>3 DEF StartOwn, Typed, TypeOK, bounds, history
<1>10. CASE StartGroup(m)
  <2> DEFINE t == Head(queue[m]).turn
  <2>1. t \in GroupTurn
    BY <1>1, <1>10, GroupItem, ItemsAreCommands DEF StartGroup
  <2>2. queue' \in [Member -> Seq(Item)]
    BY <1>1, <1>10 DEF StartGroup
  <2>3. [Idle EXCEPT !.kind = "group", !.turn = t] \in Turn
    BY <2>1 DEF Idle, Turn
  <2>4. CASE Starts(t, m)
    <3>1. turn' = [turn EXCEPT ![m] = [Idle EXCEPT !.kind = "group", !.turn = t]] /\ run' = run /\ overdue' = overdue
      BY <1>10, <2>4 DEF StartGroup
    <3>2. turn' \in [Member -> Turn]
      BY <1>1, <2>3, <3>1
    <3> QED
      BY <1>3, <1>10, <2>2, <3>1, <3>2 DEF StartGroup, Typed, TypeOK, bounds
  <2>5. CASE ~Starts(t, m)
    <3>1. Answered(m, {t}, FALSE) /\ overdue' = overdue \ {m} /\ turn' = turn
      BY <1>10, <2>5 DEF StartGroup
    <3>2. run' \in [Epoch -> Run] /\ Sends'
      BY <2>1, <3>1, AnsweredRun
    <3> QED
      BY <1>10, <2>2, <3>1, <3>2 DEF StartGroup, Typed, TypeOK, bounds
  <2> QED
    BY <2>4, <2>5
<1>11. CASE Prompted(m)
  <2>1. [turn[m] EXCEPT !.running = TRUE] \in Turn
    BY <1>4 DEF Turn
  <2>2. turn' \in [Member -> Turn] /\ run' = run
    BY <1>1, <1>11, <2>1 DEF Prompted
  <2> QED
    BY <1>3, <1>11, <2>2 DEF Prompted, Typed, TypeOK, bounds, history
<1> QED
  BY <1>5, <1>6, <1>7, <1>8, <1>9, <1>10, <1>11 DEF ActorStep

LEMMA TypeEnd ==
  ASSUME Typed, NEW m \in Member, NEW spoke \in BOOLEAN, turn[m].kind # "idle", EndOf(m, spoke), log' \in Seq(Message)
  PROVE  TypeOK' /\ Sends'
<1>1. turn[m] \in Turn /\ Idle \in Turn
  BY DEF Typed, TypeOK, Idle, Turn
<1>2. turn' \in [Member -> Turn]
  BY <1>1 DEF EndOf, Typed, TypeOK
<1>3. run' \in [Epoch -> Run] /\ Sends'
  <2>1. CASE turn[m].kind = "group" /\ turn[m].turn \in GroupTurn
    <3>1. Answered(m, {turn[m].turn}, spoke)
      BY <2>1 DEF EndOf
    <3> QED
      BY <2>1, <3>1, AnsweredRun
  <2>2. CASE turn[m].kind = "group" /\ turn[m].turn = NoTurn
    <3>1. Answered(m, {NoTurn}, spoke)
      BY <2>2 DEF EndOf
    <3>2. \A e \in Epoch : NoTurn.epoch # e
      BY DEF NoTurn, Epoch
    <3>3. run' = run
      <4>1. \A e \in Epoch : run'[e] = run[e]
        BY <3>1, <3>2 DEF Answered
      <4> QED
        BY <3>1, <4>1 DEF Answered, Typed, TypeOK
    <3> QED
      BY <3>3 DEF Typed, TypeOK, Sends
  <2>3. CASE turn[m].kind # "group"
    BY <2>3 DEF EndOf, Typed, TypeOK, Sends
  <2> QED
    BY <1>1, <2>1, <2>2, <2>3 DEF Turn
<1> QED
  BY <1>2, <1>3 DEF EndOf, Typed, TypeOK, bounds

LEMMA TypeStep == Typed /\ [Next]_vars => Typed'
<1> SUFFICES ASSUME Typed, [Next]_vars PROVE Typed'
  OBVIOUS
<1> USE DEF Typed
<1>1. ASSUME NEW names \in SUBSET Member, UserWrites(names) PROVE TypeOK' /\ Sends'
  <2>1. [author |-> User, names |-> names] \in Message
    BY DEF Message
  <2>2. log' \in Seq(Message)
    BY <1>1, <2>1, AppendProperties DEF UserWrites, TypeOK
  <2>3. epoch' \in 0..MaxEpochs /\ epoch + 1 \in Epoch
    <3>1. epoch \in 0..MaxEpochs /\ MaxEpochs \in Nat /\ epoch < MaxEpochs /\ epoch' = epoch + 1
      BY <1>1, RoomsAssumption DEF UserWrites, TypeOK
    <3> QED
      BY <3>1 DEF Epoch
  <2>4. run' = [run EXCEPT ![epoch + 1] = [run[epoch + 1] EXCEPT !.at = "round"]]
    BY <1>1 DEF UserWrites
  <2>5. run[epoch + 1] \in Run
    BY <2>3 DEF TypeOK
  <2>6. [run[epoch + 1] EXCEPT !.at = "round"] \in Run
    BY <2>5 DEF Run
  <2>7. run' \in [Epoch -> Run]
    BY <2>4, <2>6 DEF TypeOK
  <2>8. \A d \in Epoch : run'[d] = IF d = epoch + 1 THEN [run[d] EXCEPT !.at = "round"] ELSE run[d]
    BY <2>4 DEF TypeOK
  <2>9. run'[epoch + 1].at = "round"
    BY <2>3, <2>5, <2>8 DEF Run
  <2>10. Sends'
    BY <2>8, <2>9 DEF Sends
  <2> QED
    BY <1>1, <2>2, <2>3, <2>7, <2>10 DEF UserWrites, TypeOK, actors, bounds, history
<1>2. CASE GroupStop
  <2>1. epoch \in Epoch /\ epoch' \in 0..MaxEpochs
    BY <1>2, RoomsAssumption DEF GroupStop, TypeOK, Epoch
  <2>2. [cmd |-> "cancel", epoch |-> epoch] \in Command
    BY <2>1 DEF Command
  <2>3. \A m \in Member : Append(mailbox[m], [cmd |-> "cancel", epoch |-> epoch]) \in Seq(Command)
    BY <2>2, QueueTyped, AppendProperties
  <2>4. mailbox' \in [Member -> Seq(Command)]
    BY <1>2, <2>3 DEF GroupStop
  <2> QED
    BY <1>2, <2>1, <2>4 DEF GroupStop, TypeOK, Sends, bounds, history
<1>3. ASSUME NEW e \in Epoch, RoomStep(e) PROVE TypeOK' /\ Sends'
  <2>1. run' \in [Epoch -> Run] /\ Sends'
    BY <1>3, TypeRoom
  <2>2. CASE SendTurn(e)
    <3>1. run[e] \in Run /\ run[e].left # <<>>
      BY <2>2 DEF TypeOK, Sends, SendTurn
    <3>2. Head(run[e].left) \in Member
      BY <3>1, HeadTailProperties DEF Run
    <3>3. [cmd |-> "group", turn |-> [epoch |-> e, round |-> run[e].round, late |-> run[e].busy]] \in Command
      BY <3>1 DEF Run, Command, Item, GroupTurn
    <3>4. Tell(Head(run[e].left), [cmd |-> "group", turn |-> [epoch |-> e, round |-> run[e].round, late |-> run[e].busy]])
      BY <2>2 DEF SendTurn
    <3>5. mailbox' \in [Member -> Seq(Command)]
      BY <3>2, <3>3, <3>4, MailboxTyped
    <3>6. told' \subseteq Member
      BY <2>2, <3>2 DEF SendTurn, TypeOK
    <3> QED
      BY <2>1, <2>2, <3>5, <3>6 DEF SendTurn, TypeOK, bounds
  <2>3. CASE StartRound(e) \/ EndRound(e) \/ Check(e)
    BY <2>1, <2>3 DEF StartRound, EndRound, Check, TypeOK, actors, bounds, history
  <2> QED
    BY <1>3, <2>2, <2>3 DEF RoomStep
<1>4. ASSUME NEW e \in Epoch, TimeOut(e) PROVE TypeOK' /\ Sends'
  <2>1. run' \in [Epoch -> Run] /\ Sends'
    BY <1>4, TypeRoom
  <2>2. run[e] \in Run /\ run[e].left # <<>>
    BY <1>4 DEF TypeOK, Sends, TimeOut
  <2>3. Head(run[e].left) \in Member
    BY <2>2, HeadTailProperties DEF Run
  <2> QED
    BY <1>4, <2>1, <2>3 DEF TimeOut, TypeOK, actors, bounds
<1>5. ASSUME NEW m \in Member, OwnTurnArrives(m) PROVE TypeOK' /\ Sends'
  <2>1. mailbox' \in [Member -> Seq(Command)]
    BY <1>5, MailboxTyped DEF OwnTurnArrives, Command, Item
  <2>2. owns \in 0..MaxOwn /\ MaxOwn \in Nat /\ owns < MaxOwn /\ owns' = owns + 1
    BY <1>5, RoomsAssumption DEF OwnTurnArrives, TypeOK
  <2>3. owns' \in 0..MaxOwn
    BY <2>2
  <2> QED
    BY <1>5, <2>1, <2>3 DEF OwnTurnArrives, TypeOK, Sends, history
<1>6. ASSUME NEW m \in Member, OwnStop(m) PROVE TypeOK' /\ Sends'
  <2>1. mailbox' \in [Member -> Seq(Command)]
    BY <1>6, MailboxTyped DEF OwnStop, Command, Item
  <2>2. stops \in 0..MaxStops /\ MaxStops \in Nat /\ stops < MaxStops /\ stops' = stops + 1
    BY <1>6, RoomsAssumption DEF OwnStop, TypeOK
  <2>3. stops' \in 0..MaxStops
    BY <2>2
  <2> QED
    BY <1>6, <2>1, <2>3 DEF OwnStop, TypeOK, Sends, history
<1>7. ASSUME NEW m \in Member, EndsSilently(m) PROVE TypeOK' /\ Sends'
  BY <1>7, TypeEnd DEF EndsSilently, TypeOK
<1>8. ASSUME NEW m \in Member, NEW names \in SUBSET (Member \ {m}), NEW whole \in BOOLEAN, Replies(m, names, whole)
      PROVE  TypeOK' /\ Sends'
  <2>1. [author |-> m, names |-> names] \in Message
    BY DEF Message
  <2>2. log' \in Seq(Message)
    BY <1>8, <2>1, AppendProperties DEF Replies, TypeOK
  <2>3. turn[m].kind # "idle" /\ EndOf(m, whole)
    BY <1>8 DEF Replies
  <2> QED
    BY <2>2, <2>3, TypeEnd
<1>9. CASE Restart
  <2>1. ASSUME NEW e \in Epoch
        PROVE  run'[e] \in Run /\ run'[e].at \in {"none", "over"}
    <3>1. run[e] \in Run /\ <<>> \in Seq(Member)
      BY EmptySeq DEF TypeOK
    <3>2. [run[e] EXCEPT !.at = "over", !.left = <<>>] \in Run /\ [run[e] EXCEPT !.at = "over", !.left = <<>>].at = "over"
      BY <3>1 DEF Run
    <3> QED
      BY <1>9, <3>1, <3>2 DEF Restart
  <2>2. DOMAIN run' = Epoch /\ run' = [e \in Epoch |-> run'[e]]
    BY <1>9 DEF Restart
  <2>3. run' \in [Epoch -> Run] /\ Sends'
    BY <2>1, <2>2 DEF Sends
  <2>4. Idle \in Turn
    BY DEF Idle, Turn
  <2> QED
    <3>1. crashes \in 0..MaxCrashes /\ MaxCrashes \in Nat /\ crashes < MaxCrashes /\ crashes' = crashes + 1
      BY <1>9, RoomsAssumption DEF Restart, TypeOK
    <3>2. crashes' \in 0..MaxCrashes
      BY <3>1
    <3>3. mailbox' \in [Member -> Seq(Command)] /\ queue' \in [Member -> Seq(Item)] /\ turn' \in [Member -> Turn]
      BY <1>9, <2>4, EmptySeq DEF Restart
    <3> QED
      BY <1>9, <2>3, <3>2, <3>3 DEF Restart, TypeOK
<1>10. CASE UNCHANGED vars
  BY <1>10 DEF vars, TypeOK, Sends
<1> QED
  BY <1>1, <1>2, <1>3, <1>4, <1>5, <1>6, <1>7, <1>8, <1>9, <1>10, TypeActor DEF Next

\* Every variable keeps its type, and of a room turn at most MAX_REPLIES members spoke:
\* it asks no more once it is full.
THEOREM TypesAreRight == Spec => []TypeOK
<1>1. Typed => TypeOK
  BY DEF Typed
<1> QED
  BY <1>1, TypeInit, TypeStep, PTL DEF Spec

-----------------------------------------------------------------------------
(* What a step makes of a room turn. *)

Has(q, m) == \E i \in 1..Len(q) : q[i] = m
\* The members still to be asked in this round: "wait" and "send" differ in whether the
\* first one's turn is on its way.
Unsent(r) == IF r.at = "wait" THEN Tail(r.left) ELSE r.left
ToAsk(r, m) == r.at \in {"none", "round"} \/ Has(Unsent(r), m)
\* Those it has not looked at yet.
ToCome(r) == IF r.at \in {"send", "wait"} THEN Tail(r.left) ELSE r.left

\* Speakers are distinct, and room turns to come have not begun.
Shape == \A e \in Epoch : Distinct(run[e].left) /\ (e > epoch => run[e].at = "none")
\* A member is not asked again before the room said something new.
Unseen(r, m) == r.asked[m] = 0 \/ r.asked[m] < Len(log)
News == \A e \in Epoch, m \in Member :
  /\ run[e].at \in {"none", "round"} /\ run[e].round = 0 => run[e].asked[m] = 0
  /\ run[e].at \in {"check", "send", "wait"} /\ Has(ToCome(run[e]), m) => Unseen(run[e], m)

Keeps(e) == run'[e].round = run[e].round /\ run'[e].asked = run[e].asked
Goes(e) ==
  \/ run'[e] = run[e]
  \/ /\ Keeps(e) /\ run[e].at = "none" /\ run'[e].at = "round" /\ run'[e].left = run[e].left
     /\ epoch' = e /\ epoch' = epoch + 1
  \/ /\ Keeps(e) /\ run[e].at = "round" /\ run'[e].at = "check" /\ Distinct(run'[e].left)
     /\ \A m \in Member : Has(run'[e].left, m) => Unseen(run[e], m)
  \/ /\ run[e].at = "check" /\ run'[e].at = "round" /\ run'[e].left = run[e].left
     /\ run'[e].round = run[e].round + 1 /\ run'[e].asked = run[e].asked
  \/ run[e].at # "none" /\ run'[e].at = "over" /\ run'[e].left = <<>> /\ run'[e].round = run[e].round
  \/ /\ Keeps(e) /\ run[e].left # <<>> /\ run'[e].at = "check" /\ run'[e].left = Tail(run[e].left)
     /\ run[e].at \in {"check", "send", "wait"}
  \/ /\ run[e].at = "check" /\ run[e].left # <<>> /\ run'[e].at = "send" /\ run'[e].left = run[e].left
     /\ run'[e].round = run[e].round /\ run'[e].asked = [run[e].asked EXCEPT ![Head(run[e].left)] = Len(log)]
  \/ /\ Keeps(e) /\ run[e].at = "send" /\ run[e].left # <<>>
     /\ run'[e].at = "wait" /\ run'[e].left = run[e].left

LEMMA AnsweredGoes ==
  ASSUME Typed, NEW m \in Member, NEW T \in SUBSET GroupTurn, NEW spoke \in BOOLEAN, Answered(m, T, spoke)
  PROVE  \A e \in Epoch : Goes(e)
  BY AnsweredRun DEF GoesOn, Goes, Keeps

\* A speaker of a later round is one that was cited: by a message it has not been shown.
LEMMA CitedUnseen ==
  ASSUME TypeOK, NEW e \in Epoch, NEW m \in Cited(run[e].asked)
  PROVE  Unseen(run[e], m)
<1>1. PICK i \in SinceUser : \A k \in SinceUser : k >= i => ~Seen(m, run[e].asked, k)
  BY DEF Cited
<1>2. m \in Member /\ run[e].asked[m] \in Nat
  BY DEF Cited, TypeOK, Run
<1>3. i \in 1..Len(log) /\ Len(log) \in Nat /\ ~(i <= run[e].asked[m])
  BY <1>1 DEF SinceUser, Seen, TypeOK
<1> QED
  BY <1>2, <1>3 DEF Unseen

LEMMA RoomGoes ==
  ASSUME Typed, News, NEW d \in Epoch, RoomStep(d) \/ TimeOut(d)
  PROVE  \A e \in Epoch : Goes(e)
<1>1. run[d] \in Run /\ run \in [Epoch -> Run] /\ run[d].left \in Seq(Member) /\ TypeOK
  BY DEF Typed, TypeOK, Run
<1>2. SUFFICES Goes(d)
  <2>1. ASSUME NEW e \in Epoch, e # d PROVE run'[e] = run[e]
    <3>1. \A r : run' = [run EXCEPT ![d] = r] => run'[e] = run[e]
      BY <1>1, <2>1
    <3>2. \E r : run' = [run EXCEPT ![d] = r]
      BY DEF RoomStep, StartRound, EndRound, Check, SendTurn, TimeOut
    <3> QED
      BY <3>1, <3>2
  <2> QED
    BY <2>1 DEF Goes
<1>3. \A r : run' = [run EXCEPT ![d] = r] => run'[d] = r
  BY <1>1
<1>4. CASE StartRound(d)
  <2> DEFINE chosen == IF run[d].round = 0 THEN Responders ELSE Cited(run[d].asked)
             speakers == InOrder(chosen)
             left == Rotated(speakers, run[d].round)
  <2>1. speakers \in Seq(Member) /\ Distinct(speakers) /\ \A n \in 1..Len(speakers) : speakers[n] \in chosen
    BY InOrderIs
  <2>2. run[d].round \in Nat
    BY <1>1, RoomsAssumption DEF Run, Round
  <2> HIDE DEF chosen, speakers
  <2>3. Distinct(left) /\ \A i \in 1..Len(left) : \E j \in 1..Len(speakers) : left[i] = speakers[j]
    BY <2>1, <2>2, RotatedIs
  <2>4. run'[d] = [run[d] EXCEPT !.at = "check", !.left = left, !.spoke = FALSE] /\ run[d].at = "round"
    BY <1>1, <1>4 DEF StartRound, chosen, speakers
  <2>5. \A m \in Member : Has(left, m) => m \in chosen
    BY <2>1, <2>3 DEF Has
  <2>6. ASSUME NEW m \in Member, m \in chosen PROVE Unseen(run[d], m)
    <3>1. CASE run[d].round = 0
      BY <2>4, <3>1 DEF News, Unseen
    <3>2. CASE run[d].round # 0
      BY <1>1, <2>6, <3>2, CitedUnseen DEF chosen
    <3> QED
      BY <3>1, <3>2
  <2> HIDE DEF left
  <2>7. run'[d].at = "check" /\ run'[d].left = left /\ Keeps(d)
    BY <1>1, <2>4 DEF Run, Keeps
  <2> QED
    BY <2>3, <2>4, <2>5, <2>6, <2>7 DEF Goes
<1>5. CASE EndRound(d)
  <2>1. CASE run[d].spoke /\ run[d].round + 1 < MAX_ROUNDS
    <3>1. run'[d] = NextRound(run[d]) /\ run[d].at = "check"
      BY <1>3, <1>5, <2>1 DEF EndRound
    <3> QED
      BY <1>1, <3>1 DEF Goes, NextRound, Run
  <2>2. CASE ~(run[d].spoke /\ run[d].round + 1 < MAX_ROUNDS)
    <3>1. run'[d] = Finished(run[d]) /\ run[d].at = "check"
      BY <1>3, <1>5, <2>2 DEF EndRound
    <3> QED
      BY <1>1, <3>1, FinishedIs DEF Goes
  <2> QED
    BY <2>1, <2>2
<1>6. CASE Check(d)
  <2> DEFINE m == Head(run[d].left)
  <2>1. run[d].at = "check" /\ run[d].left # <<>>
    BY <1>6 DEF Check
  <2>2. CASE ~Current(d)
    <3>1. run'[d] = [run[d] EXCEPT !.at = "over", !.left = <<>>]
      BY <1>3, <1>6, <2>2 DEF Check
    <3> QED
      BY <1>1, <2>1, <3>1 DEF Goes, Run
  <2>3. CASE Current(d) /\ Full(run[d])
    <3>1. run'[d] = Finished(run[d])
      BY <1>3, <1>6, <2>3 DEF Check
    <3> QED
      BY <1>1, <2>1, <3>1, FinishedIs DEF Goes
  <2>4. CASE Current(d) /\ ~Full(run[d]) /\ m \in run[d].later
    <3>1. run'[d] = Skipped(run[d])
      BY <1>3, <1>6, <2>4 DEF Check
    <3> QED
      BY <1>1, <2>1, <3>1 DEF Goes, Keeps, Run, Skipped
  <2>5. CASE Current(d) /\ ~Full(run[d]) /\ m \notin run[d].later
    <3>1. run'[d] = [run[d] EXCEPT !.at = "send", !.asked[m] = Len(log), !.busy = BusyElsewhere(m)]
      BY <1>3, <1>6, <2>5 DEF Check
    <3>2. /\ run'[d].at = "send" /\ run'[d].left = run[d].left /\ run'[d].round = run[d].round
          /\ run'[d].asked = [run[d].asked EXCEPT ![m] = Len(log)]
      BY <1>1, <3>1 DEF Run
    <3> QED
      BY <2>1, <3>2 DEF Goes
  <2> QED
    BY <2>2, <2>3, <2>4, <2>5
<1>7. CASE SendTurn(d)
  <2>1. run[d].at = "send" /\ run[d].left # <<>>
    BY <1>7 DEF SendTurn, Typed, Sends
  <2>2. CASE run[d].busy
    <3>1. run'[d] = AnswersLater(run[d])
      BY <1>3, <1>7, <2>2 DEF SendTurn
    <3> QED
      BY <1>1, <2>1, <3>1 DEF Goes, Keeps, AnswersLater, Run
  <2>3. CASE ~run[d].busy
    <3>1. run'[d] = [run[d] EXCEPT !.at = "wait"]
      BY <1>3, <1>7, <2>3 DEF SendTurn
    <3> QED
      BY <1>1, <2>1, <3>1 DEF Goes, Keeps, Run
  <2> QED
    BY <2>2, <2>3
<1>8. CASE TimeOut(d)
  <2>1. run'[d] = TimedOut(run[d]) /\ run[d].at = "wait" /\ run[d].left # <<>>
    BY <1>3, <1>8 DEF TimeOut, Typed, Sends
  <2> QED
    BY <1>1, <2>1 DEF Goes, Keeps, TimedOut, Run
<1> QED
  BY <1>4, <1>5, <1>6, <1>7, <1>8 DEF RoomStep

LEMMA EndGoes ==
  ASSUME Typed, NEW m \in Member, NEW spoke \in BOOLEAN, turn[m].kind # "idle", EndOf(m, spoke)
  PROVE  \A e \in Epoch : Goes(e)
<1>1. turn[m] \in Turn
  BY DEF Typed, TypeOK
<1>2. CASE turn[m].kind = "group" /\ turn[m].turn \in GroupTurn
  <2>1. Answered(m, {turn[m].turn}, spoke)
    BY <1>2 DEF EndOf
  <2> QED
    BY <1>2, <2>1, AnsweredGoes
<1>3. CASE turn[m].kind = "group" /\ turn[m].turn = NoTurn
  <2>1. Answered(m, {NoTurn}, spoke)
    BY <1>3 DEF EndOf
  <2>2. \A e \in Epoch : NoTurn.epoch # e
    BY DEF NoTurn, Epoch
  <2>3. \A e \in Epoch : run'[e] = run[e]
    BY <2>1, <2>2 DEF Answered
  <2> QED
    BY <2>3 DEF Goes
<1>4. CASE turn[m].kind # "group"
  BY <1>4 DEF EndOf, Goes
<1> QED
  BY <1>1, <1>2, <1>3, <1>4 DEF Turn

LEMMA RunsGo ==
  ASSUME Typed, Shape, News, [Next]_vars
  PROVE  \A e \in Epoch : Goes(e)
<1>1. ASSUME run' = run PROVE \A e \in Epoch : Goes(e)
  BY <1>1 DEF Goes
<1>2. ASSUME NEW names \in SUBSET Member, UserWrites(names) PROVE \A e \in Epoch : Goes(e)
  <2>1. epoch \in Nat /\ epoch + 1 \in Epoch /\ run \in [Epoch -> Run] /\ epoch' = epoch + 1
    <3>1. epoch \in 0..MaxEpochs /\ MaxEpochs \in Nat /\ epoch < MaxEpochs /\ epoch' = epoch + 1
      BY <1>2, RoomsAssumption DEF UserWrites, Typed, TypeOK
    <3> QED
      BY <3>1 DEF Typed, TypeOK, Epoch
  <2>2. run[epoch + 1].at = "none" /\ run[epoch + 1] \in Run
    BY <2>1 DEF Shape
  <2>3. run' = [run EXCEPT ![epoch + 1] = [run[epoch + 1] EXCEPT !.at = "round"]]
    BY <1>2 DEF UserWrites
  <2>4. \A e \in Epoch : e # epoch + 1 => run'[e] = run[e]
    BY <2>1, <2>3
  <2>5. run'[epoch + 1] = [run[epoch + 1] EXCEPT !.at = "round"]
    BY <2>1, <2>3
  <2>6. Goes(epoch + 1)
    BY <2>1, <2>2, <2>5 DEF Goes, Keeps, Run
  <2> QED
    BY <2>4, <2>6 DEF Goes
<1>3. ASSUME NEW e \in Epoch, RoomStep(e) \/ TimeOut(e) PROVE \A d \in Epoch : Goes(d)
  BY <1>3, RoomGoes
<1>4. ASSUME NEW m \in Member, ActorStep(m) PROVE \A e \in Epoch : Goes(e)
  <2>1. TypeOK
    BY DEF Typed
  <2>2. CASE HandleOwn(m) \/ StartOwn(m) \/ Prompted(m)
    BY <1>1, <2>2 DEF HandleOwn, StartOwn, Prompted
  <2>3. CASE HandleGroup(m)
    <3>1. Answered(m, TurnsIn(queue[m]), FALSE)
      BY <2>3 DEF HandleGroup
    <3> QED
      BY <2>1, <3>1, QueueKept, AnsweredGoes
  <2>4. CASE HandleCancel(m)
    <3>1. Answered(m, TurnsIn(queue[m]), FALSE)
      BY <2>4 DEF HandleCancel
    <3> QED
      BY <2>1, <3>1, QueueKept, AnsweredGoes
  <2>5. CASE HandleStop(m)
    <3>1. Answered(m, AnsweredByStop(m), FALSE)
      BY <2>5 DEF HandleStop
    <3> QED
      BY <2>1, <3>1, QueueKept, AnsweredGoes
  <2>6. CASE StartGroup(m)
    <3> DEFINE t == Head(queue[m]).turn
    <3>1. Head(queue[m]) \in Item /\ Head(queue[m]).cmd = "group"
      BY <2>1, <2>6, QueueTyped DEF StartGroup
    <3>2. t \in GroupTurn
      BY <3>1, GroupItem, ItemsAreCommands
    <3>3. CASE run' = run
      BY <1>1, <3>3
    <3>4. CASE Answered(m, {t}, FALSE)
      BY <3>2, <3>4, AnsweredGoes
    <3> QED
      BY <2>6, <3>3, <3>4 DEF StartGroup
  <2> QED
    BY <1>4, <2>2, <2>3, <2>4, <2>5, <2>6 DEF ActorStep
<1>5. ASSUME NEW m \in Member, NEW whole \in BOOLEAN, turn[m].kind # "idle", EndOf(m, whole)
      PROVE  \A e \in Epoch : Goes(e)
  BY <1>5, EndGoes
<1>6. CASE Restart
  <2>1. ASSUME NEW e \in Epoch PROVE Goes(e)
    <3>1. run[e] \in Run
      BY DEF Typed, TypeOK
    <3>2. run'[e] = run[e] \/ (run[e].at # "none" /\ run'[e] = [run[e] EXCEPT !.at = "over", !.left = <<>>])
      BY <1>6 DEF Restart
    <3> QED
      BY <3>1, <3>2 DEF Goes, Run
  <2> QED
    BY <2>1
<1>7. ASSUME NEW m \in Member, OwnTurnArrives(m) \/ OwnStop(m) PROVE \A e \in Epoch : Goes(e)
  BY <1>1, <1>7 DEF OwnTurnArrives, OwnStop
<1>8. CASE GroupStop \/ UNCHANGED vars
  BY <1>1, <1>8 DEF GroupStop, vars
<1>9. ASSUME NEW m \in Member, EndsSilently(m) PROVE \A e \in Epoch : Goes(e)
  BY <1>5, <1>9 DEF EndsSilently
<1>10. ASSUME NEW m \in Member, NEW names \in SUBSET (Member \ {m}), NEW whole \in BOOLEAN, Replies(m, names, whole)
       PROVE  \A e \in Epoch : Goes(e)
  BY <1>5, <1>10 DEF Replies
<1> QED
  BY <1>2, <1>3, <1>4, <1>6, <1>7, <1>8, <1>9, <1>10 DEF Next

LEMMA TailHas ==
  ASSUME NEW q \in Seq(Member), q # <<>>
  PROVE  /\ Head(q) = q[1] /\ Head(q) \in Member /\ Tail(q) \in Seq(Member)
         /\ \A m : Has(Tail(q), m) => Has(q, m)
         /\ Distinct(q) => Distinct(Tail(q)) /\ ~Has(Tail(q), Head(q))
<1>1. /\ Len(q) \in Nat /\ Len(q) > 0 /\ Tail(q) \in Seq(Member) /\ Len(Tail(q)) = Len(q) - 1
      /\ \A i \in 1..(Len(q) - 1) : Tail(q)[i] = q[i + 1]
      /\ Head(q) = q[1] /\ q[1] \in Member
  BY EmptySeq, HeadTailProperties, ElementOfSeq
<1>2. \A i \in 1..Len(Tail(q)) : i \in Nat /\ i + 1 \in 1..Len(q) /\ Tail(q)[i] = q[i + 1] /\ i + 1 # 1
  BY <1>1
<1>3. 1 \in 1..Len(q)
  BY <1>1
<1>4. \A m : Has(Tail(q), m) => Has(q, m)
  BY <1>2 DEF Has
<1>5. Distinct(q) => Distinct(Tail(q))
  <2>1. SUFFICES ASSUME Distinct(q), NEW i \in 1..Len(Tail(q)), NEW j \in 1..Len(Tail(q)), Tail(q)[i] = Tail(q)[j]
                 PROVE  i = j
    BY DEF Distinct
  <2>2. i + 1 = j + 1
    BY <1>2, <2>1 DEF Distinct
  <2> QED
    BY <1>2, <2>2
<1>6. Distinct(q) => ~Has(Tail(q), Head(q))
  BY <1>1, <1>2, <1>3 DEF Distinct, Has
<1> QED
  BY <1>1, <1>4, <1>5, <1>6

LEMMA LogGrows ==
  ASSUME Typed, [Next]_vars
  PROVE  /\ Len(log) \in Nat /\ Len(log') \in Nat /\ Len(log) <= Len(log')
         /\ epoch \in Nat /\ epoch' \in Nat /\ epoch <= epoch'
<1>1. Typed'
  BY TypeStep
<1>2. log \in Seq(Message) /\ log' \in Seq(Message) /\ epoch \in 0..MaxEpochs /\ epoch' \in 0..MaxEpochs /\ MaxEpochs \in Nat
  BY <1>1, RoomsAssumption DEF Typed, TypeOK
<1>3. log' = log \/ \E x : log' = Append(log, x)
  BY DEF Next, UserWrites, GroupStop, RoomStep, StartRound, EndRound, Check, SendTurn, TimeOut, OwnTurnArrives,
         OwnStop, ActorStep, HandleOwn, HandleGroup, HandleCancel, HandleStop, StartOwn, StartGroup, Prompted,
         EndsSilently, Replies, Restart, vars
<1>4. epoch' = epoch \/ epoch' = epoch + 1
  BY DEF Next, UserWrites, GroupStop, RoomStep, StartRound, EndRound, Check, SendTurn, TimeOut, OwnTurnArrives,
         OwnStop, ActorStep, HandleOwn, HandleGroup, HandleCancel, HandleStop, StartOwn, StartGroup, Prompted,
         EndsSilently, EndOf, Replies, Restart, vars
<1>5. Len(log) <= Len(log')
  BY <1>2, <1>3
<1> QED
  BY <1>2, <1>4, <1>5

LEMMA RunsShaped ==
  ASSUME Typed, Shape, News, [Next]_vars
  PROVE  Shape' /\ News'
<1>1. Typed'
  BY TypeStep
<1>2. /\ Len(log) \in Nat /\ Len(log') \in Nat /\ Len(log) <= Len(log')
      /\ epoch \in Nat /\ epoch' \in Nat /\ epoch <= epoch'
  BY LogGrows
<1>3. ASSUME NEW e \in Epoch
      PROVE  /\ Distinct(run'[e].left) /\ (e > epoch' => run'[e].at = "none")
             /\ \A m \in Member :
                  /\ run'[e].at \in {"none", "round"} /\ run'[e].round = 0 => run'[e].asked[m] = 0
                  /\ run'[e].at \in {"check", "send", "wait"} /\ Has(ToCome(run'[e]), m)
                       => run'[e].asked[m] = 0 \/ run'[e].asked[m] < Len(log')
  <2> DEFINE r == run[e]
             q == run'[e]
             Later(m) == q.asked[m] = 0 \/ q.asked[m] < Len(log')
             Goal == /\ Distinct(q.left) /\ (e > epoch' => q.at = "none")
                     /\ \A m \in Member :
                          /\ q.at \in {"none", "round"} /\ q.round = 0 => q.asked[m] = 0
                          /\ q.at \in {"check", "send", "wait"} /\ Has(ToCome(q), m) => Later(m)
  <2>1. r \in Run /\ q \in Run /\ r.left \in Seq(Member) /\ r.round \in Nat /\ \A m \in Member : r.asked[m] \in Nat
    <3>1. r \in Run /\ q \in Run
      BY <1>1 DEF Typed, TypeOK
    <3>2. r.left \in Seq(Member) /\ r.round \in Round /\ r.asked \in [Member -> Nat]
      BY <3>1 DEF Run
    <3>3. Round \subseteq Nat
      BY RoomsAssumption DEF Round
    <3> QED
      BY <3>1, <3>2, <3>3
  <2>2. /\ Distinct(r.left) /\ (e > epoch => r.at = "none")
        /\ \A m \in Member :
             /\ r.at \in {"none", "round"} /\ r.round = 0 => r.asked[m] = 0
             /\ r.at \in {"check", "send", "wait"} /\ Has(ToCome(r), m) => Unseen(r, m)
        /\ r.at \in {"send", "wait"} => r.left # <<>>
    BY DEF Shape, News, Typed, Sends
  <2>3. \A m \in Member : Unseen(r, m) => r.asked[m] = 0 \/ r.asked[m] < Len(log')
    BY <1>2, <2>1 DEF Unseen
  <2>4. /\ r.left # <<>> => /\ Head(r.left) \in Member /\ Distinct(Tail(r.left)) /\ ~Has(Tail(r.left), Head(r.left))
                            /\ \A m : Has(Tail(r.left), m) => Has(r.left, m)
        /\ Distinct(<<>>) /\ \A m : ~Has(<<>>, m)
    BY <2>1, <2>2, TailHas DEF Distinct, Has
  <2>5. e > epoch' => e > epoch
    BY <1>2 DEF Epoch
  <2>6. Goes(e)
    BY RunsGo
  <2> SUFFICES Goal
    OBVIOUS
  <2> HIDE DEF r, q
  <2>7. CASE q = r
    BY <2>2, <2>3, <2>5, <2>7
  <2>8. CASE /\ Keeps(e) /\ r.at = "none" /\ q.at = "round" /\ q.left = r.left
             /\ epoch' = e /\ epoch' = epoch + 1
    BY <1>2, <2>2, <2>8 DEF Keeps, r, q
  <2>9. CASE /\ Keeps(e) /\ r.at = "round" /\ q.at = "check" /\ Distinct(q.left)
             /\ \A m \in Member : Has(q.left, m) => Unseen(r, m)
    BY <2>2, <2>3, <2>5, <2>9 DEF Keeps, ToCome, r, q
  <2>10. CASE /\ r.at = "check" /\ q.at = "round" /\ q.left = r.left
              /\ q.round = r.round + 1 /\ q.asked = r.asked
    BY <2>1, <2>2, <2>5, <2>10
  <2>11. CASE r.at # "none" /\ q.at = "over" /\ q.left = <<>> /\ q.round = r.round
    BY <2>2, <2>4, <2>5, <2>11
  <2>12. CASE /\ Keeps(e) /\ r.left # <<>> /\ q.at = "check" /\ q.left = Tail(r.left)
              /\ r.at \in {"check", "send", "wait"}
    <3>1. \A m : Has(q.left, m) => Has(ToCome(r), m)
      BY <2>4, <2>12 DEF ToCome
    <3>2. q.asked = r.asked /\ ToCome(q) = q.left
      BY <2>12 DEF Keeps, ToCome, r, q
    <3>3. \A m \in Member : Has(ToCome(q), m) => Later(m)
      BY <2>2, <2>3, <2>12, <3>1, <3>2
    <3> QED
      BY <2>2, <2>4, <2>5, <2>12, <3>3
  <2>13. CASE /\ r.at = "check" /\ r.left # <<>> /\ q.at = "send" /\ q.left = r.left
              /\ q.round = r.round /\ q.asked = [r.asked EXCEPT ![Head(r.left)] = Len(log)]
    <3>1. ToCome(r) = r.left /\ ToCome(q) = Tail(r.left)
      BY <2>13 DEF ToCome
    <3>2. \A m \in Member : Has(Tail(r.left), m) => m # Head(r.left)
      BY <2>4, <2>13
    <3>3. r.asked \in [Member -> Nat]
      BY <2>1 DEF Run
    <3>4. \A m \in Member : m # Head(r.left) => q.asked[m] = r.asked[m]
      BY <2>13, <3>3
    <3>5. \A m \in Member : Has(ToCome(q), m) => Later(m)
      BY <2>2, <2>3, <2>4, <2>13, <3>1, <3>2, <3>4
    <3> QED
      BY <2>2, <2>5, <2>13, <3>5
  <2>14. CASE /\ Keeps(e) /\ r.at = "send" /\ r.left # <<>>
              /\ q.at = "wait" /\ q.left = r.left
    <3>1. q.asked = r.asked /\ ToCome(q) = ToCome(r)
      BY <2>14 DEF Keeps, ToCome, r, q
    <3> QED
      BY <2>2, <2>3, <2>5, <2>14, <3>1
  <2> HIDE DEF Goal
  <2> QED
    BY <2>6, <2>7, <2>8, <2>9, <2>10, <2>11, <2>12, <2>13, <2>14 DEF Goes, r, q
<1>4. Shape'
  BY <1>3 DEF Shape
<1>5. News'
  BY <1>3 DEF News, Unseen
<1> QED
  BY <1>4, <1>5

\* No step puts a member back among those to be asked in a round, and rounds only go up.
LEMMA ToAskShrinks ==
  ASSUME Typed, Shape, News, [Next]_vars, NEW e \in Epoch
  PROVE  /\ run[e].round \in Nat /\ run'[e].round \in Nat /\ run[e].round <= run'[e].round
         /\ run'[e].round = run[e].round => \A m : ToAsk(run'[e], m) => ToAsk(run[e], m)
<1> DEFINE r == run[e]
           q == run'[e]
<1>1. r \in Run /\ r.left \in Seq(Member) /\ r.round \in Nat /\ (r.at \in {"send", "wait"} => r.left # <<>>)
  BY RoomsAssumption DEF Typed, TypeOK, Sends, Run, Round
<1>2. /\ r.left # <<>> => \A m : Has(Tail(r.left), m) => Has(r.left, m)
      /\ \A m : ~Has(<<>>, m)
  BY <1>1, TailHas DEF Has
<1>3. Goes(e)
  BY RunsGo
<1> SUFFICES /\ r.round \in Nat /\ q.round \in Nat /\ r.round <= q.round
             /\ q.round = r.round => \A m : ToAsk(q, m) => ToAsk(r, m)
  OBVIOUS
<1> HIDE DEF r, q
<1>4. CASE q = r
  BY <1>1, <1>4
<1>5. CASE Keeps(e) /\ r.at \in {"none", "round"}
  BY <1>1, <1>5 DEF Keeps, ToAsk, r, q
<1>6. CASE r.at = "check" /\ q.round = r.round + 1
  BY <1>1, <1>6
<1>7. CASE q.at = "over" /\ q.left = <<>> /\ q.round = r.round
  BY <1>1, <1>2, <1>7 DEF ToAsk, Unsent
<1>8. CASE /\ Keeps(e) /\ r.left # <<>> /\ q.at = "check" /\ q.left = Tail(r.left)
           /\ r.at \in {"check", "send", "wait"}
  <2>1. \A m : Has(Unsent(q), m) => Has(Unsent(r), m)
    BY <1>2, <1>8 DEF Unsent
  <2>2. q.round = r.round /\ q.at \notin {"none", "round"}
    BY <1>8 DEF Keeps, r, q
  <2> QED
    BY <1>1, <2>1, <2>2 DEF ToAsk
<1>9. CASE /\ r.at = "check" /\ q.at = "send" /\ q.left = r.left /\ q.round = r.round
  BY <1>1, <1>9 DEF ToAsk, Unsent
<1>10. CASE Keeps(e) /\ r.at = "send" /\ r.left # <<>> /\ q.at = "wait" /\ q.left = r.left
  <2>1. q.round = r.round
    BY <1>10 DEF Keeps, r, q
  <2> QED
    BY <1>1, <1>2, <1>10, <2>1 DEF ToAsk, Unsent
<1> QED
  BY <1>3, <1>4, <1>5, <1>6, <1>7, <1>8, <1>9, <1>10 DEF Goes, r, q

-----------------------------------------------------------------------------
(* Every turn the room asks for is one of its kind. *)

Runs(m, t) == turn[m].kind = "group" /\ turn[m].turn = t
Asked(m, t) == Runs(m, t) \/ In(queue[m], t) \/ In(mailbox[m], t)

\* A turn the room waits for is in one place of its member's actor.
OnceOf(m) ==
  /\ OnceIn(queue[m]) /\ OnceIn(mailbox[m])
  /\ \A t \in Ask : /\ Runs(m, t) => ~In(queue[m], t) /\ ~In(mailbox[m], t)
                    /\ In(queue[m], t) => ~In(mailbox[m], t)
Once == \A m \in Member : OnceOf(m)
\* It comes from the newest round or an older one, and its member is not asked in it again.
Fresh == \A m \in Member, t \in Ask : Asked(m, t) =>
  /\ t.epoch <= epoch /\ t.round <= run[t.epoch].round
  /\ t.round = run[t.epoch].round => ~ToAsk(run[t.epoch], m)

\* A step gives m's actor nothing to do for the room that it did not have.
Holds(m) == \A t \in Ask : Asked(m, t)' => Asked(m, t)

LEMMA PlacesSame ==
  ASSUME NEW m \in Member, OnceOf(m), mailbox'[m] = mailbox[m], queue'[m] = queue[m],
         turn'[m].kind # "group" \/ (turn'[m].kind = turn[m].kind /\ turn'[m].turn = turn[m].turn)
  PROVE  OnceOf(m)' /\ Holds(m)
  BY DEF OnceOf, Holds, Asked, Runs

\* The actor's steps move a turn from the mailbox to the queue to the turn, or drop it.
LEMMA PlacesMove ==
  ASSUME Typed, NEW m \in Member, OnceOf(m), ActorStep(m)
  PROVE  OnceOf(m)' /\ Holds(m)
<1>1. /\ queue[m] \in Seq(Item) /\ queue[m] \in Seq(Command) /\ mailbox[m] \in Seq(Command)
      /\ mailbox \in [Member -> Seq(Command)] /\ queue \in [Member -> Seq(Item)] /\ turn \in [Member -> Turn] /\ TypeOK
  BY QueueTyped DEF Typed, TypeOK
<1>2. ASSUME NEW cmd, Take(m, cmd)
      PROVE  /\ mailbox'[m] = Tail(mailbox[m]) /\ mailbox[m] # <<>> /\ Head(mailbox[m]) \in Command
             /\ Head(mailbox[m]).cmd = cmd
             /\ OnceIn(mailbox'[m]) /\ \A t : In(mailbox'[m], t) => In(mailbox[m], t)
  BY <1>1, <1>2, TailIs DEF Take, OnceOf
<1>3. CASE HandleOwn(m)
  <2>1. [cmd |-> "own"] \in Command
    BY DEF Command, Item
  <2>2. queue'[m] = Append(queue[m], [cmd |-> "own"]) /\ turn' = turn
    BY <1>1, <1>3 DEF HandleOwn
  <2>3. OnceIn(queue'[m]) /\ \A t : In(queue'[m], t) <=> In(queue[m], t)
    BY <1>1, <2>1, <2>2, AppendIs DEF OnceOf
  <2>4. OnceIn(mailbox'[m]) /\ \A t : In(mailbox'[m], t) => In(mailbox[m], t)
    BY <1>2, <1>3 DEF HandleOwn
  <2> QED
    BY <2>2, <2>3, <2>4 DEF OnceOf, Holds, Asked, Runs
<1>4. CASE HandleGroup(m)
  <2> DEFINE item == Head(mailbox[m])
             q == WithoutGroup(queue[m])
  <2>1. /\ mailbox'[m] = Tail(mailbox[m]) /\ mailbox[m] # <<>> /\ item \in Command /\ item.cmd = "group"
        /\ OnceIn(mailbox'[m]) /\ \A t : In(mailbox'[m], t) => In(mailbox[m], t)
    BY <1>2, <1>4 DEF HandleGroup
  <2>2. queue'[m] = Append(q, item) /\ turn' = turn
    BY <1>1, <1>4 DEF HandleGroup
  <2>3. q \in Seq(Command) /\ \A t : ~In(q, t)
    BY <1>1, QueueKept
  <2>4. OnceIn(q)
    BY <2>3 DEF OnceIn, In
  <2>5. In(mailbox[m], item.turn) /\ (~item.turn.late => ~In(mailbox'[m], item.turn))
    BY <1>1, <2>1, TailIs DEF OnceOf
  <2> HIDE DEF q, item
  <2>6. OnceIn(queue'[m]) /\ \A t : In(queue'[m], t) <=> t = item.turn
    BY <2>1, <2>2, <2>3, <2>4, AppendIs
  <2>7. \A t \in Ask : ~t.late
    BY DEF Ask
  <2> QED
    BY <2>1, <2>2, <2>5, <2>6, <2>7 DEF OnceOf, Holds, Asked, Runs
<1>5. CASE HandleCancel(m)
  <2>1. OnceIn(mailbox'[m]) /\ \A t : In(mailbox'[m], t) => In(mailbox[m], t)
    BY <1>2, <1>5 DEF HandleCancel
  <2>2. queue'[m] = WithoutGroup(queue[m])
    BY <1>1, <1>5 DEF HandleCancel
  <2>3. \A t : ~In(queue'[m], t)
    BY <1>1, <2>2, QueueKept
  <2>4. OnceIn(queue'[m])
    BY <2>3 DEF OnceIn, In
  <2>5. turn'[m].kind = turn[m].kind /\ turn'[m].turn = turn[m].turn
    BY <1>1, <1>5 DEF HandleCancel, Turn
  <2> QED
    BY <2>1, <2>3, <2>4, <2>5 DEF OnceOf, Holds, Asked, Runs
<1>6. CASE HandleStop(m)
  <2>1. OnceIn(mailbox'[m]) /\ \A t : In(mailbox'[m], t) => In(mailbox[m], t)
    BY <1>2, <1>6 DEF HandleStop
  <2>2. queue'[m] = Picked(queue[m], KeptAt(queue[m]))
    BY <1>1, <1>6 DEF HandleStop
  <2>3. OnceIn(queue'[m]) /\ \A t : In(queue'[m], t) => In(queue[m], t)
    BY <1>1, <2>2, QueueKept DEF OnceOf
  <2>4. turn'[m].kind = turn[m].kind /\ turn'[m].turn = turn[m].turn
    BY <1>1, <1>6 DEF HandleStop, Turn
  <2> QED
    BY <2>1, <2>3, <2>4 DEF OnceOf, Holds, Asked, Runs
<1>7. CASE StartOwn(m) \/ StartGroup(m)
  <2>1. queue[m] # <<>> /\ turn[m].kind = "idle" /\ mailbox' = mailbox /\ queue'[m] = Tail(queue[m])
    BY <1>1, <1>7 DEF StartOwn, StartGroup
  <2>2. /\ OnceIn(Tail(queue[m])) /\ \A t : In(Tail(queue[m]), t) => In(queue[m], t)
        /\ Head(queue[m]).cmd = "group" => In(queue[m], Head(queue[m]).turn)
        /\ Head(queue[m]).cmd = "group" /\ ~Head(queue[m]).turn.late => ~In(Tail(queue[m]), Head(queue[m]).turn)
    BY <1>1, <2>1, TailIs DEF OnceOf
  <2>3. turn'[m].kind = "group" => Head(queue[m]).cmd = "group" /\ turn'[m].turn = Head(queue[m]).turn
    BY <1>1, <1>7, <2>1 DEF StartOwn, StartGroup, Idle
  <2>4. \A t \in Ask : ~t.late
    BY DEF Ask
  <2> QED
    BY <2>1, <2>2, <2>3, <2>4 DEF OnceOf, Holds, Asked, Runs
<1>8. CASE Prompted(m)
  <2>1. turn'[m].kind = turn[m].kind /\ turn'[m].turn = turn[m].turn /\ mailbox' = mailbox /\ queue' = queue
    BY <1>1, <1>8 DEF Prompted, Turn
  <2> QED
    BY <2>1, PlacesSame
<1> QED
  BY <1>3, <1>4, <1>5, <1>6, <1>7, <1>8 DEF ActorStep

LEMMA OthersSame ==
  ASSUME Typed, NEW m \in Member, ActorStep(m), NEW k \in Member, k # m
  PROVE  mailbox'[k] = mailbox[k] /\ queue'[k] = queue[k] /\ turn'[k] = turn[k]
<1>1. mailbox \in [Member -> Seq(Command)] /\ queue \in [Member -> Seq(Item)] /\ turn \in [Member -> Turn]
  BY DEF Typed, TypeOK
<1> QED
  BY <1>1 DEF ActorStep, HandleOwn, HandleGroup, HandleCancel, HandleStop, StartOwn, StartGroup, Prompted, Take

\* What is asked stays asked in its round.
LEMMA FreshKept ==
  ASSUME Typed, Shape, News, Fresh, [Next]_vars, NEW m \in Member, NEW t \in Ask, Asked(m, t)
  PROVE  /\ t.epoch <= epoch' /\ t.round <= run'[t.epoch].round
         /\ t.round = run'[t.epoch].round => ~ToAsk(run'[t.epoch], m)
<1>1. t.epoch \in Epoch /\ t.epoch \in Nat /\ t.round \in Nat
  BY RoomsAssumption DEF Ask, GroupTurn, Epoch, Round
<1>2. /\ t.epoch <= epoch /\ t.round <= run[t.epoch].round
      /\ t.round = run[t.epoch].round => ~ToAsk(run[t.epoch], m)
  BY DEF Fresh
<1>3. epoch \in Nat /\ epoch' \in Nat /\ epoch <= epoch'
  BY LogGrows
<1>4. /\ run[t.epoch].round \in Nat /\ run'[t.epoch].round \in Nat /\ run[t.epoch].round <= run'[t.epoch].round
      /\ run'[t.epoch].round = run[t.epoch].round => (ToAsk(run'[t.epoch], m) => ToAsk(run[t.epoch], m))
  BY <1>1, ToAskShrinks
<1> QED
  BY <1>1, <1>2, <1>3, <1>4

\* A room turn sends a member its turn once in a round.
LEMMA SentOnce ==
  ASSUME Typed, Shape, News, Once, Fresh, NEW e \in Epoch, SendTurn(e)
  PROVE  Once' /\ Fresh'
<1>1. /\ run[e].at = "send" /\ run[e].left # <<>> /\ run[e] \in Run /\ run[e].left \in Seq(Member) /\ TypeOK
      /\ run \in [Epoch -> Run] /\ mailbox \in [Member -> Seq(Command)] /\ Distinct(run[e].left)
  BY DEF SendTurn, Typed, TypeOK, Sends, Run, Shape
<1>2. PICK m \in Member : m = Head(run[e].left) /\ ~Has(Tail(run[e].left), m) /\ Has(run[e].left, m)
  <2>1. Len(run[e].left) \in Nat /\ Len(run[e].left) > 0
    BY <1>1, EmptySeq
  <2>2. 1 \in 1..Len(run[e].left)
    BY <2>1
  <2>3. /\ Head(run[e].left) = run[e].left[1] /\ Head(run[e].left) \in Member
        /\ ~Has(Tail(run[e].left), Head(run[e].left))
    BY <1>1, TailHas
  <2> QED
    BY <2>2, <2>3 DEF Has
<1>3. PICK t \in GroupTurn : t = [epoch |-> e, round |-> run[e].round, late |-> run[e].busy]
  BY <1>1 DEF Run, GroupTurn
<1> DEFINE c == [cmd |-> "group", turn |-> t]
<1>4a. t.epoch = e /\ t.round = run[e].round /\ t.late = run[e].busy /\ c \in Command /\ c.cmd = "group" /\ c.turn = t
  BY <1>3 DEF Command, Item
<1>4. mailbox' = [mailbox EXCEPT ![m] = Append(@, c)] /\ queue' = queue /\ turn' = turn
  BY <1>2, <1>3 DEF SendTurn, Tell
<1>5. t \in Ask => ~Asked(m, t)
  <2>1. ToAsk(run[e], m)
    BY <1>1, <1>2 DEF ToAsk, Unsent
  <2> QED
    BY <1>4a, <2>1 DEF Fresh
<1>6. \A k \in Member : k # m => mailbox'[k] = mailbox[k]
  BY <1>1, <1>4
<1>7. mailbox'[m] = Append(mailbox[m], c) /\ mailbox[m] \in Seq(Command)
  BY <1>1, <1>2, <1>4
<1>8. ~t.late => t \in Ask
  BY <1>4a DEF Ask
<1> HIDE DEF c
<1>9. /\ OnceIn(mailbox[m]) => OnceIn(mailbox'[m])
      /\ \A u : In(mailbox'[m], u) <=> In(mailbox[m], u) \/ u = t
  BY <1>4a, <1>5, <1>7, <1>8, AppendIs DEF Asked
<1>10. OnceOf(m)'
  BY <1>4, <1>5, <1>9 DEF Once, OnceOf, Asked, Runs
<1>11. Once'
  <2>1. ASSUME NEW k \in Member, k # m PROVE OnceOf(k)'
    BY <1>4, <1>6, <2>1, PlacesSame DEF Once
  <2> QED
    BY <1>10, <2>1 DEF Once
<1>12. ASSUME NEW k \in Member, NEW u \in Ask, Asked(k, u)', ~Asked(k, u)
       PROVE  k = m /\ u = t
  BY <1>4, <1>6, <1>9, <1>12 DEF Asked, Runs
<1>13. ASSUME t \in Ask
       PROVE  /\ t.epoch <= epoch' /\ t.round <= run'[t.epoch].round
              /\ t.round = run'[t.epoch].round => ~ToAsk(run'[t.epoch], m)
  <2>1. ~run[e].busy
    BY <1>4a, <1>13 DEF Ask
  <2>2. run'[e] = [run[e] EXCEPT !.at = "wait"]
    BY <1>1, <2>1 DEF SendTurn
  <2>3. run'[e].at = "wait" /\ run'[e].left = run[e].left /\ run'[e].round = run[e].round
    BY <1>1, <2>2 DEF Run
  <2>4. ~ToAsk(run'[e], m)
    BY <1>2, <2>3 DEF ToAsk, Unsent
  <2>5. e <= epoch' /\ run[e].round <= run'[e].round
    <3>1. e \in Nat /\ epoch \in Nat /\ epoch' = epoch /\ ~(e > epoch)
      <4>1. ~(e > epoch) /\ epoch' = epoch /\ epoch \in 0..MaxEpochs /\ MaxEpochs \in Nat
        BY <1>1, RoomsAssumption DEF SendTurn, Shape, TypeOK
      <4> QED
        BY <4>1 DEF Epoch
    <3>2. run[e].round \in Int
      BY <1>1, RoomsAssumption DEF Run, Round
    <3> QED
      BY <2>3, <3>1, <3>2
  <2> QED
    BY <1>4a, <2>3, <2>4, <2>5
<1>14. [Next]_vars
  BY DEF Next, RoomStep
<1>15. Fresh'
  <2>1. ASSUME NEW k \in Member, NEW u \in Ask, Asked(k, u)'
        PROVE  /\ u.epoch <= epoch' /\ u.round <= run'[u.epoch].round
               /\ u.round = run'[u.epoch].round => ~ToAsk(run'[u.epoch], k)
    <3>1. CASE Asked(k, u)
      BY <1>14, <3>1, FreshKept
    <3>2. CASE ~Asked(k, u)
      BY <1>12, <1>13, <2>1, <3>2
    <3> QED
      BY <3>1, <3>2
  <2> QED
    BY <2>1 DEF Fresh, Ask, GroupTurn
<1> QED
  BY <1>11, <1>15

LEMMA PlacesStep ==
  ASSUME Typed, Shape, News, Once, Fresh, [Next]_vars
  PROVE  Once' /\ Fresh'
<1>1. mailbox \in [Member -> Seq(Command)] /\ queue \in [Member -> Seq(Item)] /\ turn \in [Member -> Turn]
  BY DEF Typed, TypeOK
<1>2. ASSUME \A m \in Member : OnceOf(m)' /\ Holds(m) PROVE Once' /\ Fresh'
  <2>1. Once'
    BY <1>2 DEF Once
  <2>2. ASSUME NEW k \in Member, NEW u \in Ask, Asked(k, u)'
        PROVE  /\ u.epoch <= epoch' /\ u.round <= run'[u.epoch].round
               /\ u.round = run'[u.epoch].round => ~ToAsk(run'[u.epoch], k)
    <3>1. Asked(k, u)
      BY <1>2, <2>2 DEF Holds
    <3> QED
      BY <3>1, FreshKept
  <2>3. Fresh'
    BY <2>2 DEF Fresh, Ask, GroupTurn
  <2> QED
    BY <2>1, <2>3
<1>3. ASSUME mailbox' = mailbox, queue' = queue, turn' = turn PROVE Once' /\ Fresh'
  BY <1>2, <1>3, PlacesSame DEF Once
<1>4. ASSUME NEW m \in Member, NEW c \in Command, c.cmd # "group", Tell(m, c), queue' = queue, turn' = turn
      PROVE  Once' /\ Fresh'
  <2>1. \A k \in Member : k # m => mailbox'[k] = mailbox[k]
    BY <1>1, <1>4 DEF Tell
  <2>2. mailbox'[m] = Append(mailbox[m], c) /\ mailbox[m] \in Seq(Command)
    BY <1>1, <1>4 DEF Tell
  <2>3. OnceIn(mailbox[m]) => OnceIn(mailbox'[m])
    BY <1>4, <2>2, AppendIs
  <2>4. \A u : In(mailbox'[m], u) <=> In(mailbox[m], u)
    BY <1>4, <2>2, AppendIs
  <2>5. OnceOf(m)' /\ Holds(m)
    BY <1>4, <2>3, <2>4 DEF Once, OnceOf, Holds, Asked, Runs
  <2>6. ASSUME NEW k \in Member, k # m PROVE OnceOf(k)' /\ Holds(k)
    BY <1>4, <2>1, <2>6, PlacesSame DEF Once
  <2> QED
    BY <1>2, <2>5, <2>6
<1>5. CASE GroupStop
  <2>1. [cmd |-> "cancel", epoch |-> epoch] \in Command
    BY <1>5, RoomsAssumption DEF GroupStop, Typed, TypeOK, Command, Epoch
  <2>2. ASSUME NEW m \in Member PROVE OnceOf(m)' /\ Holds(m)
    <3>1. mailbox'[m] = Append(mailbox[m], [cmd |-> "cancel", epoch |-> epoch]) /\ mailbox[m] \in Seq(Command)
      BY <1>1, <1>5 DEF GroupStop
    <3>2. OnceIn(mailbox[m]) => OnceIn(mailbox'[m])
      BY <2>1, <3>1, AppendIs
    <3>3. \A u : In(mailbox'[m], u) <=> In(mailbox[m], u)
      BY <2>1, <3>1, AppendIs
    <3>4. queue' = queue /\ turn' = turn
      BY <1>5 DEF GroupStop
    <3> QED
      BY <3>2, <3>3, <3>4 DEF Once, OnceOf, Holds, Asked, Runs
  <2> QED
    BY <1>2, <2>2
<1>6. ASSUME NEW e \in Epoch, RoomStep(e) PROVE Once' /\ Fresh'
  BY <1>3, <1>6, SentOnce DEF RoomStep, StartRound, EndRound, Check, actors
<1>7. ASSUME NEW e \in Epoch, TimeOut(e) PROVE Once' /\ Fresh'
  BY <1>3, <1>7 DEF TimeOut, actors
<1>8. ASSUME NEW names, UserWrites(names) PROVE Once' /\ Fresh'
  BY <1>3, <1>8 DEF UserWrites, actors
<1>9. ASSUME NEW m \in Member, OwnTurnArrives(m) \/ OwnStop(m) PROVE Once' /\ Fresh'
  <2>1. [cmd |-> "own"] \in Command /\ [cmd |-> "stop"] \in Command
    BY DEF Command, Item
  <2> QED
    BY <1>4, <1>9, <2>1 DEF OwnTurnArrives, OwnStop
<1>10. ASSUME NEW m \in Member, ActorStep(m) PROVE Once' /\ Fresh'
  <2>1. OnceOf(m)' /\ Holds(m)
    BY <1>10, PlacesMove DEF Once
  <2>2. ASSUME NEW k \in Member, k # m PROVE OnceOf(k)' /\ Holds(k)
    <3>1. mailbox'[k] = mailbox[k] /\ queue'[k] = queue[k] /\ turn'[k] = turn[k]
      BY <1>10, <2>2, OthersSame
    <3> QED
      BY <3>1, PlacesSame DEF Once
  <2> QED
    BY <1>2, <2>1, <2>2
<1>11. ASSUME NEW m \in Member, NEW spoke, EndOf(m, spoke) PROVE Once' /\ Fresh'
  <2>1. ASSUME NEW k \in Member PROVE OnceOf(k)' /\ Holds(k)
    <3>1. mailbox' = mailbox /\ queue' = queue /\ (turn'[k].kind # "group" \/ turn'[k] = turn[k])
      BY <1>1, <1>11 DEF EndOf, Idle
    <3> QED
      BY <3>1, PlacesSame DEF Once
  <2> QED
    BY <1>2, <2>1
<1>12. ASSUME NEW m \in Member, EndsSilently(m) PROVE Once' /\ Fresh'
  BY <1>11, <1>12 DEF EndsSilently
<1>13. ASSUME NEW m \in Member, NEW names, NEW whole, Replies(m, names, whole) PROVE Once' /\ Fresh'
  BY <1>11, <1>13 DEF Replies
<1>14. CASE Restart
  <2>1. ASSUME NEW k \in Member PROVE OnceOf(k)' /\ Holds(k)
    <3>1. mailbox'[k] = <<>> /\ queue'[k] = <<>> /\ turn'[k] = Idle
      BY <1>14 DEF Restart
    <3>2. GroupAt(<<>>) = {}
      BY DEF GroupAt
    <3> QED
      BY <3>1, <3>2 DEF OnceOf, OnceIn, Holds, Asked, In, Runs, Idle
  <2> QED
    BY <1>2, <2>1
<1>15. CASE UNCHANGED vars
  BY <1>3, <1>15 DEF vars
<1> QED
  BY <1>5, <1>6, <1>7, <1>8, <1>9, <1>10, <1>12, <1>13, <1>14, <1>15 DEF Next

-----------------------------------------------------------------------------
(* What is said while others speak. *)

\* A member that runs its turn is the one its room turn waits for, unless that stopped
\* waiting for it.
Waited == \A m \in Member \ overdue : \A t \in Ask : Runs(m, t) => Awaits(t, m)

LEMMA AskIs ==
  ASSUME NEW t \in Ask, NEW u \in GroupTurn, ~u.late, u.epoch = t.epoch, u.round = t.round
  PROVE  u = t
  BY DEF Ask, GroupTurn

LEMMA AwaitsKept ==
  ASSUME Typed, NEW m \in Member, NEW t \in Ask, Awaits(t, m)
  PROVE  /\ run'[t.epoch] = run[t.epoch] => Awaits(t, m)'
         /\ \A k \in Member, T \in SUBSET GroupTurn, spoke \in BOOLEAN :
              Answered(k, T, spoke) /\ (k = m => t \notin T) => Awaits(t, m)'
<1>1. t.epoch \in Epoch
  BY DEF Ask, GroupTurn
<1>2. run'[t.epoch] = run[t.epoch] => Awaits(t, m)'
  BY DEF Awaits
<1>3. ASSUME NEW k \in Member, NEW T \in SUBSET GroupTurn, NEW spoke \in BOOLEAN, Answered(k, T, spoke),
             k = m => t \notin T
      PROVE  run'[t.epoch] = run[t.epoch]
  <2>1. SUFFICES ASSUME run'[t.epoch] # run[t.epoch] PROVE FALSE
    OBVIOUS
  <2>2. PICK u \in T : GoesOn(t.epoch, k) /\ u.epoch = t.epoch /\ Awaits(u, k)
    BY <1>1, <1>3, <2>1, AnsweredRun
  <2>3. k = m /\ u.round = t.round /\ ~u.late
    BY <2>2 DEF Awaits
  <2>4. u = t
    BY <2>2, <2>3, AskIs
  <2> QED
    BY <1>3, <2>3, <2>4
<1> QED
  BY <1>2, <1>3

\* The steps of m's actor answer for no turn that m runs.
LEMMA WaitedActor ==
  ASSUME Typed, Once, Waited, NEW m \in Member, ActorStep(m)
  PROVE  Waited'
<1>1. TypeOK /\ turn \in [Member -> Turn] /\ turn[m] \in Turn
  BY DEF Typed, TypeOK
<1>2. ASSUME run' = run, overdue' = overdue,
             \A k \in Member : turn'[k].kind # "group" \/ (turn'[k].kind = turn[k].kind /\ turn'[k].turn = turn[k].turn)
      PROVE  Waited'
  BY <1>2 DEF Waited, Runs, Awaits
<1>3. \A t \in Ask : Runs(m, t) => ~In(queue[m], t)
  BY DEF Once, OnceOf
<1>4. ASSUME NEW T \in SUBSET GroupTurn, \A t \in T : In(queue[m], t), Answered(m, T, FALSE), overdue' = overdue,
             \A k \in Member : turn'[k].kind = turn[k].kind /\ turn'[k].turn = turn[k].turn
      PROVE  Waited'
  <2>1. ASSUME NEW k \in Member, k \notin overdue', NEW t \in Ask, Runs(k, t)' PROVE Awaits(t, k)'
    <3>1. Runs(k, t) /\ Awaits(t, k)
      BY <1>4, <2>1 DEF Runs, Waited
    <3>2. k = m => t \notin T
      BY <1>3, <1>4, <3>1
    <3> QED
      BY <1>4, <3>1, <3>2, AwaitsKept
  <2> QED
    BY <2>1 DEF Waited, Ask, GroupTurn
<1>5. CASE HandleOwn(m)
  BY <1>2, <1>5 DEF HandleOwn, history
<1>6. CASE HandleGroup(m)
  BY <1>1, <1>4, <1>6, QueueKept, QueueTyped, TurnsInType DEF HandleGroup
<1>7. CASE HandleCancel(m)
  <2>1. \A k \in Member : turn'[k].kind = turn[k].kind /\ turn'[k].turn = turn[k].turn
    BY <1>1, <1>7 DEF HandleCancel, Turn
  <2> QED
    BY <1>1, <1>4, <1>7, <2>1, QueueKept, QueueTyped, TurnsInType DEF HandleCancel
<1>8. CASE HandleStop(m)
  <2>1. \A k \in Member : turn'[k].kind = turn[k].kind /\ turn'[k].turn = turn[k].turn
    BY <1>1, <1>8 DEF HandleStop, Turn
  <2> QED
    BY <1>1, <1>4, <1>8, <2>1, QueueKept DEF HandleStop, history
<1>9. CASE StartOwn(m)
  BY <1>1, <1>2, <1>9 DEF StartOwn, Idle, history
<1>10. CASE Prompted(m)
  <2>1. \A k \in Member : turn'[k].kind = turn[k].kind /\ turn'[k].turn = turn[k].turn
    BY <1>1, <1>10 DEF Prompted, Turn
  <2> QED
    BY <1>2, <1>10, <2>1 DEF Prompted, history
<1>11. CASE StartGroup(m)
  <2> DEFINE u == Head(queue[m]).turn
  <2>1. turn[m].kind = "idle" /\ queue[m] # <<>> /\ Head(queue[m]).cmd = "group"
    BY <1>11 DEF StartGroup
  <2>2. u \in GroupTurn
    BY <1>1, <2>1, QueueTyped, GroupItem, ItemsAreCommands
  <2>3. CASE Starts(u, m)
    <3>1. turn' = [turn EXCEPT ![m] = [Idle EXCEPT !.kind = "group", !.turn = u]] /\ run' = run /\ overdue' = overdue
      BY <1>11, <2>3 DEF StartGroup
    <3>2. ASSUME NEW k \in Member, k \notin overdue', NEW t \in Ask, Runs(k, t)' PROVE Awaits(t, k)
      <4>1. CASE k = m
        <5>1. t = u
          BY <1>1, <3>1, <3>2, <4>1 DEF Runs, Idle
        <5> QED
          BY <2>3, <4>1, <5>1 DEF Starts, Ask
      <4>2. CASE k # m
        BY <1>1, <3>1, <3>2, <4>2 DEF Runs, Waited
      <4> QED
        BY <4>1, <4>2
    <3> QED
      BY <3>1, <3>2 DEF Waited, Awaits
  <2>4. CASE ~Starts(u, m)
    <3>1. Answered(m, {u}, FALSE) /\ overdue' = overdue \ {m} /\ turn' = turn
      BY <1>11, <2>4 DEF StartGroup
    <3>2. ASSUME NEW k \in Member, k \notin overdue', NEW t \in Ask, Runs(k, t)' PROVE Awaits(t, k)'
      <4>1. Runs(k, t) /\ k # m
        BY <2>1, <3>1, <3>2 DEF Runs
      <4>2. Awaits(t, k)
        BY <3>1, <3>2, <4>1 DEF Waited
      <4> QED
        BY <2>2, <3>1, <4>1, <4>2, AwaitsKept
    <3> QED
      BY <3>2 DEF Waited, Ask, GroupTurn
  <2> QED
    BY <2>3, <2>4
<1> QED
  BY <1>5, <1>6, <1>7, <1>8, <1>9, <1>10, <1>11 DEF ActorStep

LEMMA WaitedStep ==
  ASSUME Typed, Shape, News, Once, Waited, [Next]_vars
  PROVE  Waited'
<1>1. TypeOK /\ turn \in [Member -> Turn] /\ run \in [Epoch -> Run]
  BY DEF Typed, TypeOK
<1>2. ASSUME turn' = turn, overdue' = overdue,
             \A e \in Epoch : run[e].at = "wait" => run'[e] = run[e]
      PROVE  Waited'
  BY <1>2 DEF Waited, Runs, Awaits, Ask, GroupTurn
<1>3. ASSUME NEW names, UserWrites(names) PROVE Waited'
  <2>1. epoch + 1 \in Epoch /\ run[epoch + 1].at = "none"
    <3>1. epoch \in 0..MaxEpochs /\ MaxEpochs \in Nat /\ epoch < MaxEpochs
      BY <1>1, <1>3, RoomsAssumption DEF UserWrites, TypeOK
    <3> QED
      BY <3>1 DEF Shape, Epoch
  <2>2. run' = [run EXCEPT ![epoch + 1].at = "round"]
    BY <1>3 DEF UserWrites
  <2>3. \A e \in Epoch : run[e].at = "wait" => run'[e] = run[e]
    BY <1>1, <2>1, <2>2
  <2> QED
    BY <1>2, <1>3, <2>3 DEF UserWrites, actors, history
<1>4. CASE GroupStop
  BY <1>2, <1>4 DEF GroupStop, history
<1>5. ASSUME NEW d \in Epoch, RoomStep(d) PROVE Waited'
  <2>1. \E r : run' = [run EXCEPT ![d] = r]
    BY <1>5 DEF RoomStep, StartRound, EndRound, Check, SendTurn
  <2>2. run[d].at # "wait" /\ turn' = turn /\ overdue' = overdue
    BY <1>5 DEF RoomStep, StartRound, EndRound, Check, SendTurn, actors, history
  <2>3. \A e \in Epoch : run[e].at = "wait" => run'[e] = run[e]
    BY <1>1, <2>1, <2>2
  <2> QED
    BY <1>2, <2>2, <2>3
<1>6. ASSUME NEW d \in Epoch, TimeOut(d) PROVE Waited'
  <2>1. run' = [run EXCEPT ![d] = TimedOut(run[d])] /\ turn' = turn /\ overdue' = overdue \cup {Head(run[d].left)}
    BY <1>6 DEF TimeOut, actors
  <2>2. ASSUME NEW k \in Member, k \notin overdue', NEW t \in Ask, Runs(k, t)' PROVE Awaits(t, k)'
    <3>1. Runs(k, t) /\ Awaits(t, k)
      BY <2>1, <2>2 DEF Runs, Waited
    <3>2. t.epoch # d /\ t.epoch \in Epoch
      BY <2>1, <2>2, <3>1 DEF Awaits, Ask, GroupTurn
    <3>3. run'[t.epoch] = run[t.epoch]
      BY <1>1, <2>1, <3>2
    <3> QED
      BY <3>1, <3>3, AwaitsKept
  <2> QED
    BY <2>2 DEF Waited, Ask, GroupTurn
<1>7. ASSUME NEW m \in Member, OwnTurnArrives(m) \/ OwnStop(m) PROVE Waited'
  BY <1>2, <1>7 DEF OwnTurnArrives, OwnStop, history
<1>8. ASSUME NEW m \in Member, ActorStep(m) PROVE Waited'
  BY <1>8, WaitedActor
<1>9. ASSUME NEW m \in Member, NEW spoke \in BOOLEAN, turn[m].kind # "idle", EndOf(m, spoke) PROVE Waited'
  <2>1. turn' = [turn EXCEPT ![m] = Idle] /\ (overdue' = overdue \/ overdue' = overdue \ {m})
    BY <1>9 DEF EndOf
  <2>2. ASSUME NEW k \in Member, k \notin overdue', NEW t \in Ask, Runs(k, t)' PROVE Awaits(t, k)'
    <3>1. k # m /\ Runs(k, t)
      BY <1>1, <2>1, <2>2 DEF Runs, Idle
    <3>2. Awaits(t, k)
      BY <2>1, <2>2, <3>1 DEF Waited
    <3>3. CASE run' = run
      BY <3>2, <3>3, AwaitsKept
    <3>4. CASE turn[m].kind = "group" /\ turn[m].turn \in GroupTurn
      <4>1. Answered(m, {turn[m].turn}, spoke)
        BY <1>9, <3>4 DEF EndOf
      <4> QED
        BY <3>1, <3>2, <3>4, <4>1, AwaitsKept
    <3>5. CASE turn[m].kind = "group" /\ turn[m].turn = NoTurn
      <4>1. Answered(m, {NoTurn}, spoke)
        BY <1>9, <3>5 DEF EndOf
      <4>2. t.epoch \in Epoch /\ NoTurn.epoch \notin Epoch
        BY DEF NoTurn, Epoch, Ask, GroupTurn
      <4>3. run'[t.epoch] = run[t.epoch]
        BY <4>1, <4>2 DEF Answered
      <4> QED
        BY <3>2, <4>3, AwaitsKept
    <3> QED
      BY <1>1, <1>9, <3>3, <3>4, <3>5 DEF EndOf, Turn
  <2> QED
    BY <2>2 DEF Waited, Ask, GroupTurn
<1>10. ASSUME NEW m \in Member, EndsSilently(m) PROVE Waited'
  BY <1>9, <1>10 DEF EndsSilently
<1>11. ASSUME NEW m \in Member, NEW names \in SUBSET (Member \ {m}), NEW whole \in BOOLEAN, Replies(m, names, whole)
       PROVE  Waited'
  BY <1>9, <1>11 DEF Replies
<1>12. CASE Restart
  BY <1>12 DEF Restart, Waited, Runs, Idle
<1>13. CASE UNCHANGED vars
  BY <1>2, <1>13 DEF vars
<1> QED
  BY <1>3, <1>4, <1>5, <1>6, <1>7, <1>8, <1>10, <1>11, <1>12, <1>13 DEF Next

-----------------------------------------------------------------------------
(* The group's Stop. *)

\* A Stop carries the epoch it moved on from, on its way and once it is handled.
Left(n) == n = 0 \/ n < epoch
Stopped == \A m \in Member :
  /\ Left(cancelled[m])
  /\ \A i \in 1..Len(mailbox[m]) : mailbox[m][i].cmd = "cancel" => mailbox[m][i].epoch < epoch

LEMMA StoppedMailbox ==
  ASSUME Typed, NEW m \in Member, NEW n \in Nat, epoch <= n,
         \A i \in 1..Len(mailbox[m]) : mailbox[m][i].cmd = "cancel" => mailbox[m][i].epoch < epoch
  PROVE  /\ \A i \in 1..Len(mailbox[m]) : mailbox[m][i].cmd = "cancel" => mailbox[m][i].epoch < n
         /\ mailbox[m] # <<>> =>
              \A i \in 1..Len(Tail(mailbox[m])) : Tail(mailbox[m])[i].cmd = "cancel" => Tail(mailbox[m])[i].epoch < n
         /\ mailbox[m] # <<>> /\ Head(mailbox[m]).cmd = "cancel" => Head(mailbox[m]).epoch < epoch
         /\ \A c \in Command : (c.cmd = "cancel" => c.epoch < n) =>
              \A i \in 1..Len(Append(mailbox[m], c)) :
                Append(mailbox[m], c)[i].cmd = "cancel" => Append(mailbox[m], c)[i].epoch < n
<1> DEFINE q == mailbox[m]
<1>1. q \in Seq(Command) /\ Len(q) \in Nat /\ epoch \in Nat
  BY RoomsAssumption DEF Typed, TypeOK
<1>2. \A i \in 1..Len(q) : q[i] \in Command
  BY <1>1, ElementOfSeq
<1>3. \A c \in Command : c.cmd = "cancel" => c.epoch \in Nat
  BY DEF Command, Item, Epoch
<1>4. \A i \in 1..Len(q) : q[i].cmd = "cancel" => q[i].epoch < n
  BY <1>1, <1>2, <1>3
<1> HIDE DEF q
<1>5. ASSUME q # <<>>
      PROVE  /\ \A i \in 1..Len(Tail(q)) : i + 1 \in 1..Len(q) /\ Tail(q)[i] = q[i + 1]
             /\ Head(q) = q[1] /\ 1 \in 1..Len(q)
  <2>1. Len(q) > 0 /\ Len(Tail(q)) = Len(q) - 1 /\ \A i \in 1..Len(Tail(q)) : Tail(q)[i] = q[i + 1]
    BY <1>1, <1>5, EmptySeq, HeadTailProperties
  <2> QED
    BY <1>1, <2>1
<1>6. ASSUME NEW c \in Command, c.cmd = "cancel" => c.epoch < n, NEW i \in 1..Len(Append(q, c)),
             Append(q, c)[i].cmd = "cancel"
      PROVE  Append(q, c)[i].epoch < n
  <2>1. /\ Len(Append(q, c)) = Len(q) + 1 /\ Append(q, c)[Len(q) + 1] = c
        /\ \A j \in 1..Len(q) : Append(q, c)[j] = q[j]
    BY <1>1, AppendProperties
  <2>2. CASE i = Len(q) + 1
    BY <1>6, <2>1, <2>2
  <2>3. CASE i # Len(q) + 1
    <3>1. i \in 1..Len(q)
      BY <1>1, <2>1, <2>3
    <3> QED
      BY <1>4, <1>6, <2>1, <3>1
  <2> QED
    BY <2>2, <2>3
<1>7. q # <<>> => \A i \in 1..Len(Tail(q)) : Tail(q)[i].cmd = "cancel" => Tail(q)[i].epoch < n
  BY <1>4, <1>5
<1>8. \A i \in 1..Len(q) : q[i].cmd = "cancel" => q[i].epoch < epoch
  BY DEF q
<1>9. q # <<>> /\ Head(q).cmd = "cancel" => Head(q).epoch < epoch
  BY <1>5, <1>8
<1> QED
  BY <1>4, <1>6, <1>7, <1>9 DEF q

LEMMA StoppedStep ==
  ASSUME Typed, Stopped, [Next]_vars
  PROVE  Stopped'
<1>1. /\ TypeOK /\ epoch \in Nat /\ epoch' \in Nat /\ epoch <= epoch'
      /\ mailbox \in [Member -> Seq(Command)] /\ cancelled \in [Member -> 0..MaxEpochs]
      /\ \A m \in Member : cancelled[m] \in Nat
  BY LogGrows, RoomsAssumption DEF Typed, TypeOK
<1>2. ASSUME \A m \in Member : mailbox'[m] = mailbox[m] \/ (mailbox[m] # <<>> /\ mailbox'[m] = Tail(mailbox[m]))
                                 \/ mailbox'[m] = <<>>
                                 \/ \E c \in Command : mailbox'[m] = Append(mailbox[m], c) /\ (c.cmd = "cancel" => c.epoch < epoch'),
             \A m \in Member : cancelled'[m] = cancelled[m]
                                 \/ (mailbox[m] # <<>> /\ Head(mailbox[m]).cmd = "cancel" /\ cancelled'[m] = Head(mailbox[m]).epoch)
      PROVE  Stopped'
  <2>1. ASSUME NEW m \in Member
        PROVE  /\ cancelled'[m] = 0 \/ cancelled'[m] < epoch'
               /\ \A i \in 1..Len(mailbox'[m]) : mailbox'[m][i].cmd = "cancel" => mailbox'[m][i].epoch < epoch'
    <3>1. /\ \A i \in 1..Len(mailbox[m]) : mailbox[m][i].cmd = "cancel" => mailbox[m][i].epoch < epoch
          /\ cancelled[m] = 0 \/ cancelled[m] < epoch
      BY DEF Stopped, Left
    <3>2. /\ \A i \in 1..Len(mailbox[m]) : mailbox[m][i].cmd = "cancel" => mailbox[m][i].epoch < epoch'
          /\ mailbox[m] # <<>> =>
               \A i \in 1..Len(Tail(mailbox[m])) : Tail(mailbox[m])[i].cmd = "cancel" => Tail(mailbox[m])[i].epoch < epoch'
          /\ mailbox[m] # <<>> /\ Head(mailbox[m]).cmd = "cancel" => Head(mailbox[m]).epoch < epoch
          /\ \A c \in Command : (c.cmd = "cancel" => c.epoch < epoch') =>
               \A i \in 1..Len(Append(mailbox[m], c)) :
                 Append(mailbox[m], c)[i].cmd = "cancel" => Append(mailbox[m], c)[i].epoch < epoch'
      BY <1>1, <3>1, StoppedMailbox
    <3>3. mailbox[m] # <<>> /\ Head(mailbox[m]).cmd = "cancel" => Head(mailbox[m]).epoch \in Nat
      <4>1. mailbox[m] # <<>> => Head(mailbox[m]) \in Command
        BY <1>1, QueueTyped
      <4> QED
        BY <4>1 DEF Command, Item, Epoch
    <3>4. cancelled'[m] = 0 \/ cancelled'[m] < epoch'
      BY <1>1, <1>2, <3>1, <3>2, <3>3
    <3>5. \A i \in 1..Len(mailbox'[m]) : mailbox'[m][i].cmd = "cancel" => mailbox'[m][i].epoch < epoch'
      <4>1. Len(<<>>) = 0
        BY EmptySeq
      <4>2. CASE mailbox'[m] = <<>>
        BY <4>1, <4>2
      <4>3. CASE mailbox'[m] = mailbox[m] \/ (mailbox[m] # <<>> /\ mailbox'[m] = Tail(mailbox[m]))
        BY <3>2, <4>3
      <4>4. CASE \E c \in Command : mailbox'[m] = Append(mailbox[m], c) /\ (c.cmd = "cancel" => c.epoch < epoch')
        BY <3>2, <4>4
      <4> QED
        BY <1>2, <4>2, <4>3, <4>4
    <3> QED
      BY <3>4, <3>5
  <2> QED
    BY <2>1 DEF Stopped, Left
<1>3. ASSUME mailbox' = mailbox, cancelled' = cancelled PROVE Stopped'
  BY <1>2, <1>3
<1>4. ASSUME NEW m \in Member, NEW c \in Command, c.cmd # "cancel", Tell(m, c), cancelled' = cancelled PROVE Stopped'
  <2>1. \A k \in Member : mailbox'[k] = IF k = m THEN Append(mailbox[k], c) ELSE mailbox[k]
    BY <1>1, <1>4 DEF Tell
  <2> QED
    BY <1>2, <1>4, <2>1
<1>5. ASSUME NEW m \in Member, NEW cmd, Take(m, cmd),
             cancelled' = cancelled \/ (cmd = "cancel" /\ cancelled' = [cancelled EXCEPT ![m] = Head(mailbox[m]).epoch])
      PROVE  Stopped'
  <2>1. /\ mailbox[m] # <<>> /\ Head(mailbox[m]).cmd = cmd
        /\ \A k \in Member : mailbox'[k] = IF k = m THEN Tail(mailbox[k]) ELSE mailbox[k]
    BY <1>1, <1>5 DEF Take
  <2>2. \A k \in Member : cancelled'[k] = cancelled[k]
                            \/ (cmd = "cancel" /\ k = m /\ cancelled'[k] = Head(mailbox[m]).epoch)
    BY <1>1, <1>5
  <2> QED
    BY <1>2, <2>1, <2>2
<1>6. ASSUME NEW names, UserWrites(names) PROVE Stopped'
  BY <1>3, <1>6 DEF UserWrites, actors, history
<1>7. CASE GroupStop
  <2>1. [cmd |-> "cancel", epoch |-> epoch] \in Command
    <3>1. epoch \in Epoch
      <4>1. epoch \in Nat /\ 0 < epoch /\ epoch < MaxEpochs /\ MaxEpochs \in Nat
        BY <1>1, <1>7, RoomsAssumption DEF GroupStop
      <4> QED
        BY <4>1 DEF Epoch
    <3> QED
      BY <3>1 DEF Command
  <2>2. epoch < epoch' /\ cancelled' = cancelled
    BY <1>1, <1>7 DEF GroupStop, history
  <2>3. \A m \in Member : mailbox'[m] = Append(mailbox[m], [cmd |-> "cancel", epoch |-> epoch])
    BY <1>7 DEF GroupStop
  <2> QED
    BY <1>2, <2>1, <2>2, <2>3
<1>8. ASSUME NEW e \in Epoch, RoomStep(e) \/ TimeOut(e) PROVE Stopped'
  <2>1. CASE SendTurn(e)
    <3> DEFINE c == [cmd |-> "group", turn |-> [epoch |-> e, round |-> run[e].round, late |-> run[e].busy]]
    <3>1. run[e] \in Run /\ run[e].left # <<>> /\ run[e].left \in Seq(Member)
      BY <2>1 DEF SendTurn, Typed, TypeOK, Sends, Run
    <3>2. Head(run[e].left) \in Member /\ c \in Command /\ c.cmd # "cancel"
      BY <3>1, HeadTailProperties DEF Run, GroupTurn, Command, Item
    <3>3. Tell(Head(run[e].left), c) /\ cancelled' = cancelled
      BY <2>1 DEF SendTurn
    <3> QED
      BY <1>4, <3>2, <3>3
  <2> QED
    BY <1>3, <1>8, <2>1 DEF RoomStep, StartRound, EndRound, Check, TimeOut, actors, history
<1>9. ASSUME NEW m \in Member, OwnTurnArrives(m) \/ OwnStop(m) PROVE Stopped'
  <2>1. [cmd |-> "own"] \in Command /\ [cmd |-> "stop"] \in Command
    BY DEF Command, Item
  <2> QED
    BY <1>4, <1>9, <2>1 DEF OwnTurnArrives, OwnStop, history
<1>10. ASSUME NEW m \in Member, ActorStep(m) PROVE Stopped'
  BY <1>3, <1>5, <1>10 DEF ActorStep, HandleOwn, HandleGroup, HandleCancel, HandleStop, StartOwn, StartGroup, Prompted, history
<1>11. ASSUME NEW m \in Member, EndsSilently(m) PROVE Stopped'
  BY <1>3, <1>11 DEF EndsSilently, EndOf
<1>12. ASSUME NEW m \in Member, NEW names, NEW whole, Replies(m, names, whole) PROVE Stopped'
  BY <1>3, <1>12 DEF Replies, EndOf
<1>13. CASE Restart
  BY <1>2, <1>13 DEF Restart
<1>14. CASE UNCHANGED vars
  BY <1>3, <1>14 DEF vars
<1> QED
  BY <1>6, <1>7, <1>8, <1>9, <1>10, <1>11, <1>12, <1>13, <1>14 DEF Next

LEMMA StopStep ==
  ASSUME Typed, Stopped, StopEndsTurns, [Next]_vars
  PROVE  StopEndsTurns'
<1>1. TypeOK /\ turn \in [Member -> Turn] /\ cancelled \in [Member -> 0..MaxEpochs]
  BY DEF Typed, TypeOK
<1>2. ASSUME turn' = turn, cancelled' = cancelled PROVE StopEndsTurns'
  BY <1>2 DEF StopEndsTurns
<1>3. ASSUME NEW m \in Member, turn' = [turn EXCEPT ![m] = Idle], cancelled' = cancelled PROVE StopEndsTurns'
  BY <1>1, <1>3 DEF StopEndsTurns, Idle
<1>4. ASSUME NEW m \in Member, ActorStep(m) PROVE StopEndsTurns'
  <2>1. CASE HandleOwn(m) \/ HandleGroup(m)
    BY <1>2, <2>1 DEF HandleOwn, HandleGroup, history
  <2>2. CASE HandleCancel(m)
    <3>1. \A k \in Member : k # m => turn'[k] = turn[k] /\ cancelled'[k] = cancelled[k]
      BY <1>1, <2>2 DEF HandleCancel
    <3>2. turn'[m].kind = turn[m].kind /\ (turn[m].kind = "group" => turn'[m].stop)
      BY <1>1, <2>2 DEF HandleCancel, Turn
    <3> QED
      BY <3>1, <3>2 DEF StopEndsTurns
  <2>3. CASE HandleStop(m)
    <3>1. cancelled' = cancelled /\ \A k \in Member : k # m => turn'[k] = turn[k]
      BY <1>1, <2>3 DEF HandleStop, history
    <3>2. turn'[m].kind = turn[m].kind /\ (turn[m].kind = "group" => turn'[m].stop)
      BY <1>1, <2>3 DEF HandleStop, Turn
    <3> QED
      BY <3>1, <3>2 DEF StopEndsTurns
  <2>4. CASE StartOwn(m)
    BY <1>1, <2>4 DEF StartOwn, StopEndsTurns, Idle, history
  <2>5. CASE Prompted(m)
    <3>1. /\ cancelled' = cancelled /\ \A k \in Member : k # m => turn'[k] = turn[k]
          /\ turn'[m].kind = turn[m].kind /\ turn'[m].turn = turn[m].turn /\ turn'[m].stop = turn[m].stop
      BY <1>1, <2>5 DEF Prompted, Turn, history
    <3> QED
      BY <3>1 DEF StopEndsTurns
  <2>6. CASE StartGroup(m)
    <3> DEFINE t == Head(queue[m]).turn
    <3>1. t \in GroupTurn
      BY <1>1, <2>6, QueueTyped, GroupItem, ItemsAreCommands DEF StartGroup
    <3>2. CASE Starts(t, m)
      <4>1. turn' = [turn EXCEPT ![m] = [Idle EXCEPT !.kind = "group", !.turn = t]] /\ cancelled' = cancelled
        BY <2>6, <3>2 DEF StartGroup
      <4>2. t.late \/ ~(t.epoch <= cancelled[m])
        <5>1. cancelled[m] = 0 \/ cancelled[m] < epoch
          BY DEF Stopped, Left
        <5>2. t.epoch \in Nat /\ t.epoch > 0 /\ cancelled[m] \in Nat /\ epoch \in Nat
          <6>1. t.epoch \in Epoch /\ cancelled[m] \in 0..MaxEpochs /\ epoch \in 0..MaxEpochs
            BY <1>1, <3>1 DEF GroupTurn, TypeOK
          <6> QED
            BY <6>1, RoomsAssumption DEF Epoch
        <5> QED
          BY <3>2, <5>1, <5>2 DEF Starts, Current
      <4> HIDE DEF t
      <4>3. turn'[m].turn = t
        BY <1>1, <4>1 DEF Idle
      <4> QED
        BY <1>1, <4>1, <4>2, <4>3 DEF StopEndsTurns
    <3>3. CASE ~Starts(t, m)
      BY <1>2, <2>6, <3>3 DEF StartGroup
    <3> QED
      BY <3>2, <3>3
  <2> QED
    BY <1>4, <2>1, <2>2, <2>3, <2>4, <2>5, <2>6 DEF ActorStep
<1>5. CASE \E names \in SUBSET Member : UserWrites(names)
  BY <1>2, <1>5 DEF UserWrites, actors, history
<1>6. CASE GroupStop \/ UNCHANGED vars
  BY <1>2, <1>6 DEF GroupStop, history, vars
<1>7. ASSUME NEW e \in Epoch, RoomStep(e) \/ TimeOut(e) PROVE StopEndsTurns'
  BY <1>2, <1>7 DEF RoomStep, StartRound, EndRound, Check, SendTurn, TimeOut, actors, history
<1>8. ASSUME NEW m \in Member, OwnTurnArrives(m) \/ OwnStop(m) PROVE StopEndsTurns'
  BY <1>2, <1>8 DEF OwnTurnArrives, OwnStop, history
<1>9. ASSUME NEW m \in Member, EndsSilently(m) PROVE StopEndsTurns'
  BY <1>3, <1>9 DEF EndsSilently, EndOf
<1>10. ASSUME NEW m \in Member, NEW names, NEW whole, Replies(m, names, whole) PROVE StopEndsTurns'
  BY <1>3, <1>10 DEF Replies, EndOf
<1>11. CASE Restart
  BY <1>11 DEF Restart, StopEndsTurns, Idle
<1> QED
  BY <1>4, <1>5, <1>6, <1>7, <1>8, <1>9, <1>10, <1>11 DEF Next

-----------------------------------------------------------------------------
(* The theorems. *)

Inv == Typed /\ Shape /\ News /\ Once /\ Fresh /\ Waited /\ Stopped /\ StopEndsTurns

LEMMA InvInit == Init => Inv
<1>1. ASSUME Init PROVE Inv
  <2>1. Typed
    BY <1>1, TypeInit
  <2>2. Shape /\ News
    <3>1. Len(<<>>) = 0
      BY EmptySeq
    <3>2. \A e \in Epoch : run[e].at = "none" /\ run[e].left = <<>> /\ \A m \in Member : run[e].asked[m] = 0
      BY <1>1 DEF Init, NewRun
    <3> QED
      BY <3>1, <3>2 DEF Shape, News, Distinct
  <2>3. \A m \in Member : mailbox[m] = <<>> /\ queue[m] = <<>> /\ turn[m].kind = "idle" /\ cancelled[m] = 0
    BY <1>1 DEF Init, Idle
  <2>4. GroupAt(<<>>) = {} /\ Len(<<>>) = 0
    BY EmptySeq DEF GroupAt
  <2>5. Once /\ Fresh /\ Waited /\ Stopped /\ StopEndsTurns
    BY <2>3, <2>4 DEF Once, OnceOf, OnceIn, Fresh, Asked, In, Runs, Waited, Stopped, Left, StopEndsTurns
  <2> QED
    BY <2>1, <2>2, <2>5 DEF Inv
<1> QED
  BY <1>1

LEMMA InvStep == Inv /\ [Next]_vars => Inv'
  BY TypeStep, RunsShaped, PlacesStep, WaitedStep, StoppedStep, StopStep DEF Inv

LEMMA Invariant == Spec => []Inv
  BY InvInit, InvStep, PTL DEF Spec

\* Once a member handled the group's Stop, no turn the room had asked of it before goes on
\* there but one that is being stopped; late turns apart.
THEOREM StopHolds == Spec => []StopEndsTurns
<1>1. Inv => StopEndsTurns
  BY DEF Inv
<1> QED
  BY <1>1, Invariant, PTL

\* The members of a room turn speak one at a time, those that answer later and those the
\* room stopped waiting for apart.
THEOREM OneSpeaksAtATime == Spec => []OneSpeaks
<1>1. ASSUME Inv PROVE OneSpeaks
  <2>1. SUFFICES ASSUME NEW e \in Epoch, NEW m \in Member \ overdue, NEW k \in Member \ overdue,
                        Speaks(m, e), Speaks(k, e)
                 PROVE  m = k
    BY DEF OneSpeaks
  <2>2. \A j \in {m, k} : turn[j].turn \in Ask
    <3>1. \A j \in {m, k} : turn[j] \in Turn
      BY <1>1 DEF Inv, Typed, TypeOK
    <3>2. 0 \notin Epoch
      BY DEF Epoch
    <3> QED
      BY <2>1, <3>1, <3>2 DEF Speaks, Turn, NoTurn, Ask
  <2>3. Awaits(turn[m].turn, m) /\ Awaits(turn[k].turn, k)
    BY <1>1, <2>1, <2>2 DEF Inv, Waited, Runs, Speaks
  <2> QED
    BY <2>1, <2>3 DEF Awaits, Speaks
<1> QED
  BY <1>1, Invariant, PTL

\* A member that passed or answered is asked again only after the room said something it
\* has not seen.
THEOREM AskedForNewsOnly == Spec => AskedForNews
<1> DEFINE Step == \A e \in Epoch, m \in Member :
       run'[e].at = "send" /\ run[e].at = "check" /\ Head(run[e].left) = m /\ run[e].asked[m] > 0
         => run[e].asked[m] < Len(log)
<1>1. ASSUME Inv, [Next]_vars PROVE Step
  <2>1. SUFFICES ASSUME NEW e \in Epoch, NEW m \in Member, run'[e].at = "send", run[e].at = "check",
                        Head(run[e].left) = m, run[e].asked[m] > 0
                 PROVE  run[e].asked[m] < Len(log)
    OBVIOUS
  <2>2. Goes(e) /\ run[e].left \in Seq(Member) /\ run[e].asked[m] \in Nat
    BY <1>1, RunsGo DEF Inv, Typed, TypeOK, Run
  <2>3. run[e].left # <<>>
    BY <2>1, <2>2 DEF Goes
  <2>4. Has(run[e].left, m)
    <3>1. Len(run[e].left) \in Nat /\ Len(run[e].left) > 0 /\ Head(run[e].left) = run[e].left[1]
      BY <2>2, <2>3, EmptySeq, TailHas
    <3> QED
      BY <2>1, <3>1 DEF Has
  <2>5. Unseen(run[e], m)
    BY <1>1, <2>1, <2>4 DEF Inv, News, ToCome
  <2> QED
    BY <2>1, <2>2, <2>5 DEF Unseen
<1>2. Inv /\ [Next]_vars => [Step]_vars
  BY <1>1
<1> QED
  BY <1>2, Invariant, PTL DEF Spec, AskedForNews
=============================================================================
