---------------------------- MODULE RosterProofs ----------------------------
(***************************************************************************)
(* Proofs about Roster: every copy is true to the log it keeps, and seats  *)
(* the newest owner the root named.                                        *)
(***************************************************************************)
EXTENDS Roster, RankLemmas

(***************************************************************************)
(* The parts of Count, each by what it is worked out from.                 *)
(***************************************************************************)
Namings(L) == {s \in Of(L, "owner") : s.by = Root}
OwnerAt(ns) == [t \in Time |-> LatestId({s \in ns : s.at <= t})]
Top(ns, s) == s.by = Root \/ OwnerAt(ns)[s.at] = s.by
Above(ns, w, u) ==
  \/ w = Root /\ u # Root
  \/ w # Root /\ u # Root /\ w # u /\ Later(Latest({s \in ns : s.id = w}), Latest({s \in ns : s.id = u}))
Tops(ns) == Ids(ns) \cup {Root}
FromTop(L, ns) == {s \in Of(L, "remove") : Top(ns, s) /\ MayRemove(s, OwnerAt(ns)[s.at], LatestId(ns))}
Silent(ns, ft) ==
  LET silent[u \in Tops(ns)] == \E s \in ft : s.id = u /\ s.cascade /\ Above(ns, s.by, u) /\ ~silent[s.by]
  IN silent
Effective(ns, ft) == {s \in ft : ~Silent(ns, ft)[s.by]}
TopRemovals(L) == Effective(Namings(L), FromTop(L, Namings(L)))
Stolen(tr) == Ids({s \in tr : s.cascade})
Promotions(L) == {s \in Of(L, "promote") : Top(Namings(L), s) /\ s.by \notin Stolen(TopRemovals(L))}
AdminAt(ps, tr, id, t) ==
  /\ \E s \in ps : s.id = id /\ s.at <= t
  /\ id \notin Stolen(tr) /\ \A r \in tr : r.id = id => t < r.at
ByAdmin(L, s) == AdminAt(Promotions(L), TopRemovals(L), s.by, s.at)
Protected(L, s) == {OwnerAt(Namings(L))[s.at]} \cup Ids(Promotions(L)) \cup Ids(TopRemovals(L))
AdminRemovals(L) == {s \in Of(L, "remove") : ByAdmin(L, s) /\ s.id \notin Protected(L, s)}
Gone(L) == TopRemovals(L) \cup AdminRemovals(L)
Admissions(L) ==
  {s \in Of(L, "admit") : s.by \notin Stolen(Gone(L)) /\ (Top(Namings(L), s) \/ ByAdmin(L, s))}
Admitted(L) == Ids(Namings(L)) \cup Ids(Admissions(L))
RoleOf(ns, ps, tr, c) ==
  IF c = LatestId(ns) THEN "owner" ELSE IF c \in Ids(ps) \ Ids(tr) THEN "admin" ELSE "member"
Places(L, c) == {s.at : s \in {q \in Newest(L) : q.by = c}}

LEMMA CountIs ==
  ASSUME NEW L
  PROVE  Count(L) =
           [members |-> [c \in Admitted(L) \ Ids(Gone(L)) |->
                          [role |-> RoleOf(Namings(L), Promotions(L), TopRemovals(L), c), addr |-> Places(L, c)]],
            removed |-> Ids(Gone(L)),
            signers |-> Tops(Namings(L)) \cup Admitted(L),
            deciders |-> Tops(Namings(L)) \cup Ids(Promotions(L))]
BY DEF Count, Namings, OwnerAt, Top, Above, Tops, FromTop, Silent, Effective, TopRemovals, Stolen, Promotions, AdminAt,
       ByAdmin, Protected, AdminRemovals, Gone, Admissions, Admitted, RoleOf, Places

\* Who is in and out, and why a removal counts.
LEMMA CountFacts ==
  ASSUME NEW L
  PROVE  /\ Gone(L) \subseteq Of(L, "remove")
         /\ \A s \in Gone(L) : \/ s.by = Root \/ s.id # LatestId(Namings(L))
                              \/ (s.by \in Ids(Of(L, "promote")) /\ s.id # OwnerAt(Namings(L))[s.at])
         /\ Ids(Namings(L)) \subseteq Admitted(L) /\ Admitted(L) \subseteq Ids(L)
         /\ DOMAIN Count(L).members = Admitted(L) \ Ids(Gone(L)) /\ Count(L).removed = Ids(Gone(L))
         /\ LatestId(Namings(L)) \in Admitted(L) \ Ids(Gone(L))
              => Count(L).members[LatestId(Namings(L))].role = "owner"
         /\ Root \in Count(L).signers
<1>1. \A s \in TopRemovals(L) : s \in Of(L, "remove") /\ (s.by = Root \/ s.id # LatestId(Namings(L)))
  BY DEF TopRemovals, Effective, FromTop, MayRemove
<1>2. \A s \in AdminRemovals(L) :
        s \in Of(L, "remove") /\ s.by \in Ids(Promotions(L)) /\ s.id # OwnerAt(Namings(L))[s.at]
  BY DEF AdminRemovals, ByAdmin, AdminAt, Protected, Ids
<1>3. Ids(Promotions(L)) \subseteq Ids(Of(L, "promote"))
  BY DEF Promotions, Ids
<1>4. /\ Gone(L) \subseteq Of(L, "remove")
      /\ \A s \in Gone(L) : \/ s.by = Root \/ s.id # LatestId(Namings(L))
                           \/ (s.by \in Ids(Of(L, "promote")) /\ s.id # OwnerAt(Namings(L))[s.at])
  BY <1>1, <1>2, <1>3 DEF Gone
<1>5. Ids(Namings(L)) \subseteq Admitted(L) /\ Admitted(L) \subseteq Ids(L)
  BY DEF Admitted, Admissions, Namings, Ids, Of
<1>6. RoleOf(Namings(L), Promotions(L), TopRemovals(L), LatestId(Namings(L))) = "owner"
  BY DEF RoleOf
<1>7. Root \in Tops(Namings(L))
  BY DEF Tops
<1> QED
  BY <1>4, <1>5, <1>6, <1>7, CountIs

-----------------------------------------------------------------------------
\* A log that some computer signed its way to: the root named an owner, and signs nothing else.
Good(L) ==
  /\ L \subseteq Signed /\ IsFiniteSet(L)
  /\ \A s \in L : s.by = Root <=> s.kind = "owner"
  /\ \A s \in L : s.kind = "owner" => s.cascade = FALSE
  /\ Of(L, "owner") # {}

LEMMA ImageFinite ==
  ASSUME NEW S, IsFiniteSet(S), NEW f
  PROVE  IsFiniteSet({f[x] : x \in S})
<1> DEFINE g == [x \in S |-> f[x]]
<1>1. g \in Surjection(S, {f[x] : x \in S})
  BY DEF Surjection
<1> QED
  BY <1>1, FS_Surjection

\* Of a few things, one is the highest by a key, and of these, by another.
LEMMA HighestByTwo ==
  ASSUME NEW S, IsFiniteSet(S), S # {}, NEW a \in [S -> Int], NEW b \in [S -> Int]
  PROVE  \E m \in S : \A q \in S : a[q] < a[m] \/ (a[q] = a[m] /\ b[q] <= b[m])
<1>1. PICK h \in {a[s] : s \in S} : \A k \in {a[s] : s \in S} : k <= h
  <2>1. IsFiniteSet({a[s] : s \in S})
    BY ImageFinite
  <2> QED
    BY <2>1, HighestExists
<1> DEFINE T == {s \in S : a[s] = h}
<1>2. IsFiniteSet(T) /\ T # {} /\ T \subseteq S
  BY <1>1, FS_Subset
<1>3. PICK i \in {b[s] : s \in T} : \A k \in {b[s] : s \in T} : k <= i
  <2>1. IsFiniteSet({b[s] : s \in T})
    BY <1>2, ImageFinite
  <2>2. {b[s] : s \in T} \subseteq Int /\ {b[s] : s \in T} # {}
    BY <1>2
  <2> QED
    BY <2>1, <2>2, HighestExists
<1>4. PICK m \in T : b[m] = i
  BY <1>3
<1>5. ASSUME NEW q \in S
      PROVE  a[q] < a[m] \/ (a[q] = a[m] /\ b[q] <= b[m])
  <2>1. a[q] <= h /\ a[m] = h /\ a[q] \in Int /\ h \in Int
    BY <1>1, <1>4
  <2>2. CASE a[q] = h
    <3>1. b[q] \in {b[s] : s \in T}
      BY <2>2
    <3> QED
      BY <1>3, <1>4, <2>1, <2>2, <3>1
  <2> QED
    BY <2>1, <2>2
<1> QED
  BY <1>4, <1>5

\* The namings have a latest one, and only one.
LEMMA LatestNaming ==
  ASSUME NEW S, S \subseteq Signed, IsFiniteSet(S), S # {},
         \A s \in S : s.kind = "owner" /\ s.by = Root /\ s.cascade = FALSE
  PROVE  /\ Latest(S) \in S
         /\ \A q \in S : q = Latest(S) \/ Later(Latest(S), q)
<1> DEFINE a == [s \in S |-> s.at]
           b == [s \in S |-> s.id]
<1>1. \A s \in S : s.at \in Int /\ s.id \in Int
  BY DEF Signed, Time, Computer
<1>2. a \in [S -> Int] /\ b \in [S -> Int]
  BY <1>1
<1>3. \E m \in S : \A q \in S : a[q] < a[m] \/ (a[q] = a[m] /\ b[q] <= b[m])
  <2> HIDE DEF a, b
  <2> QED
    BY <1>2, HighestByTwo
<1>4. PICK m \in S : \A q \in S : q.at < m.at \/ (q.at = m.at /\ q.id <= m.id)
  BY <1>3
<1>5. \A q \in S : q.at = m.at /\ q.id = m.id => q = m
  BY DEF Signed
<1>6. \A q \in S : q = m \/ Later(m, q)
  BY <1>1, <1>4, <1>5 DEF Later
<1> QED
  BY <1>6 DEF Latest

\* It is the only one that no other is later than.
LEMMA LatestUnique ==
  ASSUME NEW S, S \subseteq Signed, NEW m \in S, \A q \in S : q = m \/ Later(m, q)
  PROVE  Latest(S) = m
<1>1. \A s \in S : s.at \in Int /\ s.id \in Int
  BY DEF Signed, Time, Computer
<1>2. Latest(S) \in S /\ \A q \in S : q = Latest(S) \/ Later(Latest(S), q)
  BY DEF Latest
<1> QED
  BY <1>1, <1>2 DEF Later

LEMMA GoodNamings ==
  ASSUME NEW L, Good(L)
  PROVE  /\ Namings(L) = Of(L, "owner") /\ Latest(Namings(L)) \in Namings(L)
         /\ \A q \in Namings(L) : q = Latest(Namings(L)) \/ Later(Latest(Namings(L)), q)
         /\ LatestId(Namings(L)) = Latest(Namings(L)).id
<1>1. Namings(L) = Of(L, "owner") /\ Namings(L) \subseteq L /\ Namings(L) # {}
  BY DEF Good, Namings, Of
<1>2. IsFiniteSet(Namings(L)) /\ Namings(L) \subseteq Signed
  BY <1>1, FS_Subset DEF Good
<1>3. \A s \in Namings(L) : s.kind = "owner" /\ s.by = Root /\ s.cascade = FALSE
  BY DEF Good, Namings, Of
<1>4. LatestId(Namings(L)) = Latest(Namings(L)).id
  BY <1>1 DEF LatestId
<1> QED
  BY <1>1, <1>2, <1>3, <1>4, LatestNaming

\* From the time it was named on, the newest owner is the owner.
LEMMA OwnerSince ==
  ASSUME NEW L, Good(L), NEW t \in Time, Latest(Namings(L)).at <= t
  PROVE  OwnerAt(Namings(L))[t] = LatestId(Namings(L))
<1> DEFINE m == Latest(Namings(L))
           S == {s \in Namings(L) : s.at <= t}
<1>1. m \in S /\ \A q \in S : q = m \/ Later(m, q)
  BY GoodNamings
<1>2. S \subseteq Signed
  BY DEF Good, Namings, Of
<1>3. Latest(S) = m
  <2> HIDE DEF m, S
  <2> QED
    BY <1>1, <1>2, LatestUnique
<1> QED
  BY <1>1, <1>3, GoodNamings DEF OwnerAt, LatestId

-----------------------------------------------------------------------------
\* Of a log, the newest owner is seated, unless an admin's removal from before says otherwise.
LEMMA CountSeats ==
  ASSUME NEW L, Good(L)
  PROVE  LET naming == Latest(Of(L, "owner"))
         IN \/ naming.id \in DOMAIN Count(L).members /\ Count(L).members[naming.id].role = "owner"
            \/ \E s \in Of(L, "remove") : s.id = naming.id /\ s.at < naming.at /\ s.by \in Ids(Of(L, "promote"))
<1> DEFINE naming == Latest(Namings(L))
<1>1. /\ Namings(L) = Of(L, "owner") /\ naming \in Namings(L) /\ LatestId(Namings(L)) = naming.id
  BY GoodNamings
<1>2. L \subseteq Signed
  BY DEF Good
<1>3. LatestId(Namings(L)) \in Admitted(L)
  BY <1>1, CountFacts DEF Ids
<1> HIDE DEF naming
<1>4. CASE LatestId(Namings(L)) \notin Ids(Gone(L))
  BY <1>1, <1>3, <1>4, CountFacts DEF naming
<1>5. CASE LatestId(Namings(L)) \in Ids(Gone(L))
  <2>1. PICK s \in Gone(L) : s.id = LatestId(Namings(L))
    BY <1>5 DEF Ids
  <2>2. s \in L /\ s.kind = "remove" /\ s \in Of(L, "remove")
    BY CountFacts DEF Of
  <2>3. s.by # Root /\ s.at \in Time /\ naming.at \in Time
    BY <1>1, <1>2, <2>2 DEF Good, Of, Signed
  <2>4. s.by \in Ids(Of(L, "promote")) /\ OwnerAt(Namings(L))[s.at] # LatestId(Namings(L))
    BY CountFacts, <2>1, <2>3
  <2>5. ~(naming.at <= s.at)
    BY <2>3, <2>4, OwnerSince DEF naming
  <2>6. s.at < naming.at
    BY <2>3, <2>5 DEF Time
  <2> QED
    BY <1>1, <2>1, <2>2, <2>4, <2>6 DEF naming
<1> QED
  BY <1>4, <1>5

-----------------------------------------------------------------------------
\* What counts of a log; the share of each computer is what Compact keeps of it.
Counting(L) ==
  LET known == Count(L)
  IN {s \in L : /\ s.by \in known.signers
                /\ s.kind = "owner" => s.by = Root
                /\ s.kind = "locate" => s.by \notin known.removed /\ s \in Newest(L)
                /\ s.kind \notin {"owner", "locate"} => s.by \in known.deciders}

LEMMA CountingFacts ==
  ASSUME NEW L, Good(L)
  PROVE  /\ Counting(L) \subseteq L /\ Of(L, "owner") \subseteq Counting(L)
         /\ Compact(L, Count(L)) =
              IF Cardinality(Counting(L)) <= MAX_PER_SIGNER THEN Counting(L)
              ELSE {s \in Counting(L) :
                      Cardinality({q \in Counting(L) : q.by = s.by /\ Before(q, s)}) < MAX_PER_SIGNER}
<1>1. Counting(L) \subseteq L
  BY DEF Counting
<1>2. Of(L, "owner") \subseteq Counting(L)
  BY CountFacts DEF Good, Of, Counting
<1> QED
  BY <1>1, <1>2 DEF Compact, Counting

\* What a copy drops leaves the root's first naming in it.
LEMMA CompactIsGood ==
  ASSUME NEW L, Good(L)
  PROVE  Good(Compact(L, Count(L)))
<1>1. L \subseteq Signed
  BY DEF Good
<1> DEFINE counting == Counting(L)
<1>2. /\ counting \subseteq L /\ Of(L, "owner") \subseteq counting
      /\ Compact(L, Count(L)) = IF Cardinality(counting) <= MAX_PER_SIGNER THEN counting
           ELSE {s \in counting : Cardinality({q \in counting : q.by = s.by /\ Before(q, s)}) < MAX_PER_SIGNER}
  BY CountingFacts
<1> HIDE DEF counting
<1> DEFINE O == Of(L, "owner")
<1>3. /\ IsFiniteSet(O) /\ O # {} /\ O \subseteq L
      /\ \A s \in L : s.by = Root <=> s \in O
  BY FS_Subset DEF Good, Of
<1>4. \A s \in O : s.at \in Int /\ s.id \in Int /\ s.kind = "owner" /\ Rank(s) = 0
  BY <1>1 DEF Good, Of, Signed, Time, Computer, Rank
<1>5. PICK m \in O : \A q \in O : m.at < q.at \/ (m.at = q.at /\ m.id <= q.id)
  <2> DEFINE a == [s \in O |-> 0 - s.at]
             b == [s \in O |-> 0 - s.id]
  <2>1. a \in [O -> Int] /\ b \in [O -> Int]
    BY <1>4
  <2>2. \E m \in O : \A q \in O : a[q] < a[m] \/ (a[q] = a[m] /\ b[q] <= b[m])
    <3> HIDE DEF a, b, O
    <3> QED
      BY <1>3, <2>1, HighestByTwo
  <2>3. PICK m \in O : \A q \in O : a[q] < a[m] \/ (a[q] = a[m] /\ b[q] <= b[m])
    BY <2>2
  <2>4. \A q \in O : m.at < q.at \/ (m.at = q.at /\ m.id <= q.id)
    BY <1>4, <2>3
  <2> QED
    BY <2>4
<1> HIDE DEF O
<1>6. \A q \in O : ~Before(q, m)
  BY <1>4, <1>5 DEF Before
<1>7. {q \in counting : q.by = m.by /\ Before(q, m)} = {}
  BY <1>2, <1>3, <1>5, <1>6
<1>8. m \in Compact(L, Count(L)) /\ Compact(L, Count(L)) \subseteq L
  <2>1. Cardinality({}) = 0 /\ 0 < MAX_PER_SIGNER
    BY FS_EmptySet, RosterAssumption
  <2>2. m \in counting
    BY <1>2, <1>5 DEF O
  <2> QED
    BY <1>2, <1>7, <2>1, <2>2
<1>9. Of(Compact(L, Count(L)), "owner") # {}
  BY <1>5, <1>8 DEF O, Of
<1>10. IsFiniteSet(Compact(L, Count(L)))
  BY <1>8, FS_Subset DEF Good
<1> QED
  BY <1>8, <1>9, <1>10 DEF Good

\* A copy that is worked out from a good log, and is true to the log it keeps.
True(r) == Good(r.log) /\ r = Copy(r.log, Count(r.log))

LEMMA RebuildIsTrue ==
  ASSUME NEW L, Good(L)
  PROVE  True(Rebuild(L))
<1> DEFINE known == Count(L)
           kept == Compact(L, known)
<1>1. Good(kept)
  BY CompactIsGood
<1>2. Rebuild(L) = Copy(kept, IF kept = L THEN known ELSE Count(kept))
  BY DEF Rebuild, Recounted
<1> HIDE DEF kept
<1>3. Rebuild(L) = Copy(kept, Count(kept))
  BY <1>2
<1>4. Rebuild(L).log = kept
  BY <1>3 DEF Copy
<1> QED
  BY <1>1, <1>3, <1>4 DEF True

\* Logs of the same network make a good one together.
LEMMA UnionIsGood ==
  ASSUME NEW L, Good(L), NEW K, Good(K)
  PROVE  Good(L \cup K)
<1>1. IsFiniteSet(L \cup K)
  BY FS_Union DEF Good
<1> QED
  BY <1>1 DEF Good, Of

LEMMA MergeIsTrue ==
  ASSUME NEW r, True(r), NEW K, Good(K)
  PROVE  True(Merge(r, K))
BY UnionIsGood, RebuildIsTrue DEF Merge, True

\* An entry that the computer, or the root, may sign.
Signable(s) ==
  /\ s \in Signed
  /\ s.by = Root <=> s.kind = "owner"
  /\ s.kind = "owner" => s.cascade = FALSE

LEMMA SignIsTrue ==
  ASSUME NEW r, True(r), NEW s, Signable(s)
  PROVE  True(Sign(r, s))
<1>1. Good(r.log \cup {s})
  <2>1. IsFiniteSet(r.log \cup {s})
    BY FS_AddElement DEF True, Good
  <2> QED
    BY <2>1 DEF True, Good, Of, Signable
<1> QED
  BY <1>1, RebuildIsTrue DEF Sign, Changed

-----------------------------------------------------------------------------
\* Who is at the top in a good log is one of the owners, or the root.
LEMMA TopIsTop ==
  ASSUME NEW L, Good(L), NEW s \in L, Top(Namings(L), s)
  PROVE  s.by \in Tops(Namings(L))
<1>1. CASE s.by = Root
  BY <1>1 DEF Tops
<1>2. CASE s.by # Root
  <2> DEFINE S == {q \in Namings(L) : q.at <= s.at}
  <2>1. s.at \in Time /\ s.by \in Computer
    BY <1>2 DEF Good, Signed
  <2>2. LatestId(S) = s.by
    BY <1>2, <2>1 DEF Top, OwnerAt
  <2>3. S # {}
    BY <2>1, <2>2 DEF LatestId, Nobody, Computer
  <2>4. S \subseteq Signed /\ IsFiniteSet(S) /\ \A q \in S : q.kind = "owner" /\ q.by = Root /\ q.cascade = FALSE
    BY FS_Subset DEF Good, Namings, Of
  <2>5. Latest(S) \in S
    <3> HIDE DEF S
    <3> QED
      BY <2>3, <2>4, LatestNaming
  <2>6. Latest(S).id = s.by
    BY <2>2, <2>3 DEF LatestId
  <2> QED
    BY <2>5, <2>6 DEF Tops, Ids
<1> QED
  BY <1>1, <1>2

\* Of what counts, all is by those who decide.
LEMMA ByDeciders ==
  ASSUME NEW L, Good(L)
  PROVE  \A s \in FromTop(L, Namings(L)) \cup Promotions(L) \cup AdminRemovals(L) \cup Admissions(L) :
           s \in L /\ s.kind \notin {"owner", "locate"} /\ s.by \in Count(L).deciders
<1>1. Count(L).deciders = Tops(Namings(L)) \cup Ids(Promotions(L))
  BY CountIs
<1>2. \A s \in L : ByAdmin(L, s) => s.by \in Ids(Promotions(L))
  BY DEF ByAdmin, AdminAt, Ids
<1>3. \A s \in FromTop(L, Namings(L)) : s \in L /\ s.kind = "remove" /\ Top(Namings(L), s)
  BY DEF FromTop, Of
<1>4. \A s \in Promotions(L) : s \in L /\ s.kind = "promote" /\ Top(Namings(L), s)
  BY DEF Promotions, Of
<1>5. \A s \in AdminRemovals(L) : s \in L /\ s.kind = "remove" /\ ByAdmin(L, s)
  BY DEF AdminRemovals, Of
<1>6. \A s \in Admissions(L) : s \in L /\ s.kind = "admit" /\ (Top(Namings(L), s) \/ ByAdmin(L, s))
  BY DEF Admissions, Of
<1> QED
  BY <1>1, <1>2, <1>3, <1>4, <1>5, <1>6, TopIsTop

\* A computer that is in has the same newest locations in every part of a log that has what counts.
LEMMA SameLocations ==
  ASSUME NEW L, Good(L), NEW M, M \subseteq L, Counting(L) \subseteq M,
         NEW c, c \in Count(L).signers, c \notin Count(L).removed
  PROVE  {q \in Newest(M) : q.by = c} = {q \in Newest(L) : q.by = c}
<1>1. \A q \in Newest(L) : q.by = c => q \in M
  BY DEF Counting, Newest, Of
<1>2. \A q \in Newest(L) : q.by = c => q \in Newest(M)
  BY <1>1 DEF Newest, Of
<1>3. ASSUME NEW q \in Newest(M), q.by = c
      PROVE  q \in Newest(L)
  <2> DEFINE S == {p \in Of(L, "locate") : p.by = c}
             a == [p \in S |-> p.at]
  <2>1. q \in S
    BY <1>3 DEF Newest, Of
  <2>2. IsFiniteSet(S)
    BY FS_Subset DEF Good, Of
  <2>3. \A p \in S : p.at \in Int
    BY DEF Good, Signed, Time, Of
  <2>4. \E h \in S : \A p \in S : p.at <= h.at
    <3>1. a \in [S -> Int]
      BY <2>3
    <3>2. \E h \in S : \A p \in S : a[p] < a[h] \/ (a[p] = a[h] /\ a[p] <= a[h])
      <4> HIDE DEF S, a
      <4> QED
        BY <2>1, <2>2, <3>1, HighestByTwo
    <3>3. PICK h \in S : \A p \in S : a[p] < a[h] \/ (a[p] = a[h] /\ a[p] <= a[h])
      BY <3>2
    <3>4. \A p \in S : a[p] = p.at
      OBVIOUS
    <3>5. \A p \in S : p.at <= h.at
      <4> HIDE DEF S, a
      <4> QED
        BY <2>3, <3>3, <3>4
    <3> QED
      BY <3>5
  <2>5. PICK h \in S : \A p \in S : p.at <= h.at
    BY <2>4
  <2>6. h \in Newest(L) /\ h.by = c
    BY <2>5 DEF Newest, Of
  <2>7. h.at <= q.at
    BY <1>1, <1>3, <2>6 DEF Newest, Of
  <2>8. \A p \in S : p.at <= q.at
    BY <2>1, <2>3, <2>5, <2>7
  <2> QED
    BY <1>3, <2>1, <2>8 DEF Newest
<1> QED
  BY <1>2, <1>3

\* When all who decide got in, every part of a log that has what counts says the same as the whole.
LEMMA CountBetween ==
  ASSUME NEW L, Good(L), Count(L).deciders \subseteq Count(L).signers,
         NEW M, M \subseteq L, Counting(L) \subseteq M
  PROVE  Count(M) = Count(L) /\ Counting(M) = Counting(L)
<1> DEFINE ns == Namings(L)
<1>1. \A s \in FromTop(L, ns) \cup Promotions(L) \cup AdminRemovals(L) \cup Admissions(L) : s \in M
  BY ByDeciders DEF Counting
<1>2. Namings(M) = ns
  BY CountingFacts DEF Namings, Of
<1>3. FromTop(M, ns) = FromTop(L, ns)
  <2>1. \A s \in FromTop(M, ns) : s \in FromTop(L, ns)
    BY DEF FromTop, Of
  <2>2. \A s \in FromTop(L, ns) : s \in FromTop(M, ns)
    BY <1>1 DEF FromTop, Of
  <2> QED
    BY <2>1, <2>2
<1>4. TopRemovals(M) = TopRemovals(L)
  BY <1>2, <1>3 DEF TopRemovals
<1>5. Promotions(M) = Promotions(L)
  <2>1. \A s \in Promotions(M) : s \in Promotions(L)
    BY <1>2, <1>4 DEF Promotions, Of
  <2>2. \A s \in Promotions(L) : s \in Promotions(M)
    BY <1>1, <1>2, <1>4 DEF Promotions, Of
  <2> QED
    BY <2>1, <2>2
<1>6. \A s : ByAdmin(M, s) <=> ByAdmin(L, s)
  BY <1>4, <1>5 DEF ByAdmin
<1>7. \A s : Protected(M, s) = Protected(L, s)
  BY <1>2, <1>4, <1>5 DEF Protected
<1>8. AdminRemovals(M) = AdminRemovals(L)
  <2>1. \A s \in AdminRemovals(M) : s \in AdminRemovals(L)
    BY <1>6, <1>7 DEF AdminRemovals, Of
  <2>2. \A s \in AdminRemovals(L) : s \in AdminRemovals(M)
    BY <1>1, <1>6, <1>7 DEF AdminRemovals, Of
  <2> QED
    BY <2>1, <2>2
<1>9. Gone(M) = Gone(L)
  BY <1>4, <1>8 DEF Gone
<1>10. Admissions(M) = Admissions(L)
  <2>1. \A s \in Admissions(M) : s \in Admissions(L)
    BY <1>2, <1>6, <1>9 DEF Admissions, Of
  <2>2. \A s \in Admissions(L) : s \in Admissions(M)
    BY <1>1, <1>2, <1>6, <1>9 DEF Admissions, Of
  <2> QED
    BY <2>1, <2>2
<1>11. Admitted(M) = Admitted(L)
  BY <1>2, <1>10 DEF Admitted
<1>12. /\ Count(L).signers = Tops(ns) \cup Admitted(L) /\ Count(L).removed = Ids(Gone(L))
  BY CountIs
<1>13. \A c \in Admitted(L) \ Ids(Gone(L)) : Places(M, c) = Places(L, c)
  BY <1>12, SameLocations DEF Places
<1>14. Count(M) = Count(L)
  <2> DEFINE ms(X) == [c \in Admitted(X) \ Ids(Gone(X)) |->
                        [role |-> RoleOf(Namings(X), Promotions(X), TopRemovals(X), c), addr |-> Places(X, c)]]
  <2>1. ms(M) = ms(L)
    BY <1>2, <1>4, <1>5, <1>9, <1>11, <1>13
  <2>2. \A X \in {L, M} : Count(X) = [members |-> ms(X), removed |-> Ids(Gone(X)),
                                     signers |-> Tops(Namings(X)) \cup Admitted(X),
                                     deciders |-> Tops(Namings(X)) \cup Ids(Promotions(X))]
    BY CountIs
  <2> HIDE DEF ms
  <2> QED
    BY <1>2, <1>5, <1>9, <1>11, <2>1, <2>2
<1>15. Counting(M) = Counting(L)
  <2>1. \A s \in L : s.kind = "locate" /\ s.by \in Count(L).signers /\ s.by \notin Count(L).removed
                      => (s \in Newest(M) <=> s \in Newest(L))
    BY SameLocations
  <2>2. \A s \in Counting(M) : s \in Counting(L)
    BY <1>14, <2>1 DEF Counting
  <2>3. \A s \in Counting(L) : s \in Counting(M)
    BY <1>14, <2>1, CountingFacts DEF Counting
  <2> QED
    BY <2>2, <2>3
<1> QED
  BY <1>14, <1>15

\* No computer past its share, a copy keeps all that counts.
LEMMA CompactWithin ==
  ASSUME NEW L, Good(L), NEW M, M \subseteq L, Good(M),
         \A c \in Computer \cup {Root} : Cardinality({s \in L : s.by = c}) <= MAX_PER_SIGNER
  PROVE  Compact(M, Count(M)) = Counting(M)
<1> DEFINE K == Counting(M)
<1>1. K \subseteq L
  BY CountingFacts
<1> HIDE DEF K
<1>2. ASSUME NEW s \in K
      PROVE  Cardinality({q \in K : q.by = s.by /\ Before(q, s)}) < MAX_PER_SIGNER
  <2> DEFINE A == {q \in K : q.by = s.by /\ Before(q, s)}
             B == {q \in L : q.by = s.by}
  <2>1. s.by \in Computer \cup {Root} /\ s.at \in Int /\ s.id \in Int /\ Rank(s) = Rank(s)
    BY <1>1 DEF Good, Signed, Time, Computer
  <2>2. ~Before(s, s)
    <3>1. Rank(s) \in Int
      <4>1. s.kind \in Kinds /\ s.cascade \in BOOLEAN
        BY <1>1 DEF Good, Signed
      <4> QED
        BY <4>1 DEF Rank, Kinds
    <3> QED
      BY <2>1, <3>1 DEF Before
  <2>3. A \subseteq B /\ s \in B /\ s \notin A
    BY <1>1, <2>2
  <2>4. IsFiniteSet(B)
    BY FS_Subset DEF Good
  <2>5. Cardinality(A) <= Cardinality(B) /\ Cardinality(A) # Cardinality(B)
        /\ Cardinality(A) \in Nat /\ Cardinality(B) \in Nat
    <3> HIDE DEF A, B
    <3> QED
      BY <2>3, <2>4, FS_Subset, FS_CardinalityType
  <2>6. Cardinality(B) <= MAX_PER_SIGNER
    BY <2>1
  <2> QED
    BY <2>5, <2>6, RosterAssumption
<1>3. Compact(M, Count(M)) = IF Cardinality(K) <= MAX_PER_SIGNER THEN K
        ELSE {s \in K : Cardinality({q \in K : q.by = s.by /\ Before(q, s)}) < MAX_PER_SIGNER}
  BY CountingFacts DEF K
<1> QED
  BY <1>2, <1>3 DEF K

\* What rebuilding comes to.
LEMMA RebuildIs ==
  ASSUME NEW L
  PROVE  Rebuild(L) = Copy(Compact(L, Count(L)), Count(Compact(L, Count(L))))
<1> DEFINE known == Count(L)
           kept == Compact(L, known)
<1>1. Rebuild(L) = Copy(kept, IF kept = L THEN known ELSE Count(kept))
  BY DEF Rebuild, Recounted
<1> HIDE DEF kept
<1>2. Rebuild(L) = Copy(kept, Count(kept))
  BY <1>1
<1> QED
  BY <1>2 DEF kept

\* A copy of a steady log has nothing left to drop.
LEMMA SteadyIsLean ==
  ASSUME NEW L, Good(L), Steady(L)
  PROVE  Lean(Rebuild(L).log)
<1> DEFINE K == Counting(L)
<1>1. K \subseteq L /\ Compact(L, Count(L)) = K
  BY CountingFacts, CompactWithin DEF Steady
<1>2. Good(K)
  BY <1>1, CompactIsGood
<1>3. Counting(K) = K
  BY <1>1, CountBetween DEF Steady
<1> HIDE DEF K
<1>4. Compact(K, Count(K)) = K
  BY <1>1, <1>2, <1>3, CompactWithin DEF Steady
<1>5. Rebuild(L).log = K
  BY <1>1, RebuildIs DEF Copy
<1> QED
  BY <1>4, <1>5 DEF Lean

\* One hello, between any two copies.
LEMMA HelloAgrees ==
  ASSUME NEW r, NEW q, True(r), True(q), Lean(r.log), Lean(q.log), Steady(r.log \cup q.log)
  PROVE  LET merged == Merge(q, r.log) IN Merge(r, merged.log) = merged
<1> DEFINE A == r.log
           B == q.log
           L == A \cup B
           K == Counting(L)
<1>1. Good(A) /\ Good(B) /\ r = Copy(A, Count(A)) /\ q = Copy(B, Count(B))
  BY DEF True
<1>2. Good(L)
  BY <1>1, UnionIsGood
<1> HIDE DEF A, B
<1>3. Lean(A) /\ Lean(B) /\ Steady(L) /\ r.log = A /\ q.log = B
  BY DEF A, B
<1> HIDE DEF L
<1>4. CASE A \subseteq B
  <2>1. Merge(q, A) = q /\ L = B
    BY <1>3, <1>4 DEF Merge, L
  <2>2. CASE B \subseteq A
    <3>1. A = B
      BY <1>4, <2>2
    <3>2. r = q
      BY <1>1, <3>1
    <3> QED
      BY <1>3, <2>1, <2>2, <3>2 DEF Merge
  <2>3. CASE ~(B \subseteq A)
    <3>1. Merge(r, B) = Rebuild(L)
      BY <1>3, <2>3 DEF Merge, L
    <3>2. Rebuild(L) = Copy(B, Count(B))
      BY <1>3, <2>1, RebuildIs DEF Lean
    <3> QED
      BY <1>1, <1>3, <2>1, <3>1, <3>2
  <2> QED
    BY <2>2, <2>3
<1>5. CASE ~(A \subseteq B)
  <2>1. Merge(q, A) = Rebuild(L)
    <3>1. B \cup A = L
      BY DEF L
    <3> QED
      BY <1>3, <1>5, <3>1 DEF Merge
  <2>2. ASSUME NEW M, M \subseteq L, Good(M), K \subseteq M
        PROVE  Compact(M, Count(M)) = K
    <3>1. Counting(M) = K
      BY <1>2, <1>3, <2>2, CountBetween DEF Steady
    <3> QED
      BY <1>2, <1>3, <2>2, <3>1, CompactWithin DEF Steady
  <2>3. K \subseteq L
    BY <1>2, CountingFacts
  <2> HIDE DEF K
  <2>4. Rebuild(L) = Copy(K, Count(K)) /\ Rebuild(L).log = K
    <3>1. Compact(L, Count(L)) = K
      BY <1>2, <2>2, <2>3
    <3>2. Rebuild(L) = Copy(K, Count(K))
      BY <3>1, RebuildIs
    <3> QED
      BY <3>2 DEF Copy
  <2>5. CASE K \subseteq A
    <3>1. A \subseteq L
      BY DEF L
    <3>2. Compact(A, Count(A)) = K
      BY <1>1, <2>2, <2>5, <3>1
    <3>3. A = K
      BY <1>3, <3>2 DEF Lean
    <3> QED
      BY <1>1, <1>3, <2>1, <2>4, <2>5, <3>3 DEF Merge
  <2>6. CASE ~(K \subseteq A)
    <3> DEFINE M == A \cup K
    <3>1. M \subseteq L /\ K \subseteq M
      BY <2>3 DEF L
    <3>2. Good(K)
      <4>1. Compact(L, Count(L)) = K
        BY <1>2, <2>2, <2>3
      <4> QED
        BY <1>2, <4>1, CompactIsGood
    <3>3. Good(M)
      BY <1>1, <3>2, UnionIsGood
    <3> HIDE DEF M
    <3>4. Compact(M, Count(M)) = K
      BY <2>2, <3>1, <3>3
    <3>5. Rebuild(M) = Copy(K, Count(K))
      BY <3>4, RebuildIs
    <3>6. Merge(r, K) = Rebuild(M)
      BY <1>3, <2>6 DEF Merge, M
    <3> QED
      BY <1>3, <2>1, <2>4, <3>5, <3>6
  <2> QED
    BY <2>5, <2>6
<1> QED
  BY <1>3, <1>4, <1>5

-----------------------------------------------------------------------------
\* Every copy is true to its log, and every answer on its way is a good log.
Inv ==
  /\ \A c \in Computer : roster[c] = Nothing \/ True(roster[c])
  /\ \A c \in Computer : answer[c] = {} \/ Good(answer[c])
  /\ DOMAIN roster = Computer /\ DOMAIN answer = Computer
  /\ now \in Time /\ others \in 0..MaxOthers

LEMMA EmptyCopy ==
  /\ Nothing.log = {} /\ DOMAIN Nothing.members = {} /\ Nothing.removed = {}
  /\ \A r : True(r) => r # Nothing
<1>1. Nothing.log = {} /\ DOMAIN Nothing.members = {} /\ Nothing.removed = {}
  BY DEF Nothing
<1>2. ~Good({})
  BY DEF Good, Of
<1> QED
  BY <1>1, <1>2 DEF True

LEMMA InvTells ==
  ASSUME Inv
  PROVE  TypeOK /\ OwnerSeated /\ OneHello
<1>1. \A c \in Computer : InNetwork(c) <=> True(roster[c])
  BY EmptyCopy DEF Inv, InNetwork
<1>2. ASSUME NEW c \in Computer
      PROVE  /\ roster[c].log \subseteq Signed /\ answer[c] \subseteq Signed
             /\ Members(c) \subseteq Computer /\ Removed(c) \subseteq Computer
             /\ InNetwork(c) => /\ roster[c].members = Count(roster[c].log).members
                                /\ roster[c].removed = Count(roster[c].log).removed
  <2>1. answer[c] \subseteq Signed
    BY DEF Inv, Good
  <2>2. CASE roster[c] = Nothing
    BY <2>1, <2>2, EmptyCopy DEF Members, Removed, InNetwork
  <2>3. CASE True(roster[c])
    <3> DEFINE K == roster[c].log
    <3>1. K \subseteq Signed /\ roster[c].members = Count(K).members /\ roster[c].removed = Count(K).removed
      BY <2>3 DEF True, Copy, Good
    <3> HIDE DEF K
    <3>2. Ids(K) \subseteq Computer /\ Ids(Gone(K)) \subseteq Computer
      BY <3>1, CountFacts DEF Ids, Of, Signed
    <3>3. DOMAIN Count(K).members \subseteq Computer /\ Count(K).removed \subseteq Computer
      BY <3>2, CountFacts
    <3> QED
      BY <2>1, <3>1, <3>2, <3>3 DEF Members, Removed, K
  <2> QED
    BY <2>2, <2>3 DEF Inv
<1>3. TypeOK
  BY <1>2 DEF TypeOK, Inv
<1>4. OwnerSeated
  <2> SUFFICES ASSUME NEW c \in Computer, InNetwork(c)
               PROVE  LET naming == Latest(Of(roster[c].log, "owner"))
                          seated == naming.id \in Members(c) /\ roster[c].members[naming.id].role = "owner"
                          admins == Ids(Of(roster[c].log, "promote"))
                      IN seated \/ \E s \in Of(roster[c].log, "remove") : s.id = naming.id /\ s.at < naming.at /\ s.by \in admins
    BY DEF OwnerSeated
  <2>1. Good(roster[c].log) /\ roster[c].members = Count(roster[c].log).members
    BY <1>1, <1>2 DEF True
  <2> QED
    BY <2>1, CountSeats DEF Members
<1>5. OneHello
  <2> SUFFICES ASSUME NEW c \in Computer, NEW d \in Computer, MayGreet(c, d), Lean(roster[c].log), Lean(roster[d].log),
                      Steady(roster[c].log \cup roster[d].log)
               PROVE  Agreed(c, d)
    BY DEF OneHello
  <2>1. True(roster[c]) /\ True(roster[d])
    BY <1>1, EmptyCopy DEF MayGreet, Members, InNetwork
  <2> QED
    BY <2>1, HelloAgrees DEF Agreed
<1> QED
  BY <1>3, <1>4, <1>5

\* Computer 1 named by the root, which it then tells of who joined and where all are.
LEMMA FirstLog ==
  LET first == {Entry("owner", Root, 1, 1, FALSE)}
               \cup {Entry("admit", 1, 1, c, FALSE) : c \in 2..Founders}
               \cup {Entry("locate", c, 1, c, FALSE) : c \in 1..Founders}
  IN Good(first)
<1> DEFINE one == Entry("owner", Root, 1, 1, FALSE)
           admits == {Entry("admit", 1, 1, c, FALSE) : c \in 2..Founders}
           locates == {Entry("locate", c, 1, c, FALSE) : c \in 1..Founders}
           first == {one} \cup admits \cup locates
<1>1. N \in Nat \ {0} /\ Founders \in 1..N /\ MaxSigned \in Nat
  BY RosterAssumption
<1>2. 1 \in Time /\ 1 \in Computer /\ 1..Founders \subseteq Computer /\ 2..Founders \subseteq Computer
  BY <1>1 DEF Time, Computer
<1>3. IsFiniteSet(admits)
  <2> DEFINE f == [c \in 2..Founders |-> Entry("admit", 1, 1, c, FALSE)]
  <2>1. IsFiniteSet(2..Founders)
    BY <1>1, FS_Interval
  <2>2. IsFiniteSet({f[c] : c \in 2..Founders})
    <3> HIDE DEF f
    <3> QED
      BY <2>1, ImageFinite
  <2>3. {f[c] : c \in 2..Founders} = admits
    OBVIOUS
  <2> QED
    BY <2>2, <2>3
<1>4. IsFiniteSet(locates)
  <2> DEFINE f == [c \in 1..Founders |-> Entry("locate", c, 1, c, FALSE)]
  <2>1. IsFiniteSet(1..Founders)
    BY <1>1, FS_Interval
  <2>2. IsFiniteSet({f[c] : c \in 1..Founders})
    <3> HIDE DEF f
    <3> QED
      BY <2>1, ImageFinite
  <2>3. {f[c] : c \in 1..Founders} = locates
    OBVIOUS
  <2> QED
    BY <2>2, <2>3
<1>5. IsFiniteSet(first)
  BY <1>3, <1>4, FS_Singleton, FS_Union
<1>6. one \in Signed /\ one.kind = "owner" /\ one.by = Root /\ one.cascade = FALSE
  BY <1>2 DEF Entry, Signed, Kinds
<1>7. \A s \in admits \cup locates : s \in Signed /\ s.kind # "owner" /\ s.by # Root
  <2>1. \A c \in Computer : c # Root
    BY DEF Computer, Root
  <2>2. ASSUME NEW s \in admits
        PROVE  s \in Signed /\ s.kind # "owner" /\ s.by # Root
    <3>1. PICK c \in 2..Founders : s = Entry("admit", 1, 1, c, FALSE)
      BY <2>2
    <3> QED
      BY <1>2, <2>1, <3>1 DEF Entry, Signed, Kinds
  <2>3. ASSUME NEW s \in locates
        PROVE  s \in Signed /\ s.kind # "owner" /\ s.by # Root
    <3>1. PICK c \in 1..Founders : s = Entry("locate", c, 1, c, FALSE)
      BY <2>3
    <3> QED
      BY <1>2, <2>1, <3>1 DEF Entry, Signed, Kinds
  <2> QED
    BY <2>2, <2>3
<1> HIDE DEF one, admits, locates
<1>8. Good(first)
  BY <1>5, <1>6, <1>7 DEF Good, Of
<1> QED
  BY <1>8 DEF one, admits, locates

LEMMA InitInv == Init => Inv
<1> SUFFICES ASSUME Init PROVE Inv
  OBVIOUS
<1>1. 1 \in Time /\ 0 \in 0..MaxOthers
  BY RosterAssumption DEF Time
<1>2. PICK first : True(first) /\ roster = [c \in Computer |-> IF c <= Founders THEN first ELSE Nothing]
  BY FirstLog, RebuildIsTrue DEF Init
<1> QED
  BY <1>1, <1>2 DEF Init, Inv

\* What a change comes to, when the computer signs what it may.
LEMMA ChangeKeeps ==
  ASSUME Inv, NEW c \in Computer, InNetwork(c), NEW by, NEW kind, NEW id \in Computer, NEW cascade \in BOOLEAN,
         \/ (by \in Computer /\ kind \in Kinds \ {"owner"})
         \/ (by = Root /\ kind = "owner" /\ cascade = FALSE),
         Change(c, by, kind, id, cascade)
  PROVE  /\ \A d \in Computer : roster'[d] = Nothing \/ True(roster'[d])
         /\ DOMAIN roster' = Computer /\ now' \in Time /\ True(roster'[c])
<1>1. PICK at \in Times : roster' = [roster EXCEPT ![c] = Sign(@, Entry(kind, by, at, id, cascade))]
  BY DEF Change
<1>2. at \in Time
  BY DEF Times
<1>3. Signable(Entry(kind, by, at, id, cascade))
  <2>1. Root \notin Computer
    BY DEF Computer, Root
  <2> QED
    BY <1>2, <2>1 DEF Signable, Entry, Signed, Kinds
<1>4. True(roster[c])
  BY DEF Inv, InNetwork
<1>5. True(Sign(roster[c], Entry(kind, by, at, id, cascade)))
  BY <1>3, <1>4, SignIsTrue
<1>6. now' \in Time
  BY RosterAssumption DEF Change, Inv, Time
<1> QED
  BY <1>1, <1>5, <1>6 DEF Inv

LEMMA StepInv == Inv /\ [Next]_vars => Inv'
<1> SUFFICES ASSUME Inv, [Next]_vars PROVE Inv'
  OBVIOUS
<1>1. \A c \in Computer : InNetwork(c) <=> True(roster[c])
  BY EmptyCopy DEF Inv, InNetwork
<1>2. \A c, d \in Computer : d \in Members(c) => InNetwork(c)
  BY EmptyCopy DEF InNetwork, Members
<1>3. ASSUME NEW c \in Computer, Locate(c)
      PROVE  Inv'
  <2>1. InNetwork(c) /\ Change(c, c, "locate", c, FALSE) /\ answer' = answer /\ others < MaxOthers /\ others' = others + 1
    BY <1>2, <1>3 DEF Locate
  <2>2. others' \in 0..MaxOthers
    BY <2>1, RosterAssumption DEF Inv
  <2> QED
    BY <2>1, <2>2, ChangeKeeps DEF Inv, Kinds
<1>4. ASSUME NEW c \in Computer, Recover(c)
      PROVE  Inv'
  <2>1. InNetwork(c) /\ Change(c, Root, "owner", c, FALSE) /\ answer' = answer /\ others < MaxOthers /\ others' = others + 1
    BY <1>4 DEF Recover
  <2>2. others' \in 0..MaxOthers
    BY <2>1, RosterAssumption DEF Inv
  <2> QED
    BY <2>1, <2>2, ChangeKeeps DEF Inv
<1>5. ASSUME NEW c \in Computer, Welcomed(c)
      PROVE  Inv'
  <2>1. PICK at \in Time : roster' = [roster EXCEPT ![c] = Sign(Rebuild(answer[c]), Entry("locate", c, at, c, FALSE))]
    BY <1>5 DEF Welcomed
  <2>2. True(Rebuild(answer[c]))
    BY <1>5, RebuildIsTrue DEF Welcomed, Inv
  <2>3. Signable(Entry("locate", c, at, c, FALSE))
    <3>1. Root \notin Computer
      BY DEF Computer, Root
    <3> QED
      BY <3>1 DEF Signable, Entry, Signed, Kinds
  <2>4. True(Sign(Rebuild(answer[c]), Entry("locate", c, at, c, FALSE)))
    BY <2>2, <2>3, SignIsTrue
  <2>5. answer' = [answer EXCEPT ![c] = {}] /\ UNCHANGED <<now, others>>
    BY <1>5 DEF Welcomed
  <2> QED
    BY <2>1, <2>4, <2>5 DEF Inv
<1>6. ASSUME NEW c \in Computer, Heard(c)
      PROVE  Inv'
  <2>1. /\ InNetwork(c) /\ Good(answer[c])
        /\ roster' = [roster EXCEPT ![c] = Merge(@, answer[c])]
        /\ answer' = [answer EXCEPT ![c] = {}] /\ UNCHANGED <<now, others>>
    BY <1>6 DEF Heard, Inv
  <2>2. True(Merge(roster[c], answer[c]))
    BY <1>1, <2>1, MergeIsTrue
  <2> QED
    BY <2>1, <2>2 DEF Inv
<1>7. ASSUME NEW c \in Computer, Restart(c)
      PROVE  Inv'
  <2>1. /\ roster' = [roster EXCEPT ![c] = IF InNetwork(c) THEN Rebuild(@.log) ELSE @]
        /\ answer' = [answer EXCEPT ![c] = {}] /\ UNCHANGED <<now, others>>
    BY <1>7 DEF Restart
  <2>2. InNetwork(c) => True(Rebuild(roster[c].log))
    BY <1>1, RebuildIsTrue DEF True
  <2> QED
    BY <2>1, <2>2 DEF Inv
<1>8. ASSUME NEW c \in Computer, NEW d \in Computer, Promote(c, d)
      PROVE  Inv'
  <2>1. InNetwork(c) /\ Change(c, c, "promote", d, FALSE) /\ UNCHANGED <<answer, others>>
    BY <1>2, <1>8 DEF Promote
  <2> QED
    BY <2>1, ChangeKeeps DEF Inv, Kinds
<1>9. ASSUME NEW c \in Computer, NEW d \in Computer, Join(c, d)
      PROVE  Inv'
  <2>1. /\ InNetwork(d) /\ Change(d, d, "admit", c, FALSE) /\ UNCHANGED others
        /\ answer' = [answer EXCEPT ![c] = roster'[d].log]
    BY <1>9 DEF Join
  <2>2. /\ \A e \in Computer : roster'[e] = Nothing \/ True(roster'[e])
        /\ DOMAIN roster' = Computer /\ now' \in Time /\ True(roster'[d])
    BY <2>1, ChangeKeeps DEF Kinds
  <2> QED
    BY <2>1, <2>2 DEF Inv, True
<1>10. ASSUME NEW c \in Computer, NEW d \in Computer, Hello(c, d)
       PROVE  Inv'
  <2>1. /\ InNetwork(c) /\ InNetwork(d)
        /\ roster' = [roster EXCEPT ![d] = Merge(@, roster[c].log)]
        /\ answer' = [answer EXCEPT ![c] = roster'[d].log] /\ UNCHANGED <<now, others>>
    BY <1>2, <1>10 DEF Hello
  <2>2. True(Merge(roster[d], roster[c].log))
    BY <1>1, <2>1, MergeIsTrue DEF True
  <2>3. True(roster'[d])
    BY <2>1, <2>2 DEF Inv
  <2> QED
    BY <2>1, <2>2, <2>3 DEF Inv, True
<1>11. ASSUME NEW c \in Computer, NEW d \in Computer, NEW cascade \in BOOLEAN, Remove(c, d, cascade)
       PROVE  Inv'
  <2>1. InNetwork(c) /\ Change(c, c, "remove", d, cascade) /\ UNCHANGED <<answer, others>>
    BY <1>2, <1>11 DEF Remove
  <2> QED
    BY <2>1, ChangeKeeps DEF Inv, Kinds
<1>12. CASE UNCHANGED vars
  BY <1>12 DEF vars, Inv
<1> QED
  BY <1>3, <1>4, <1>5, <1>6, <1>7, <1>8, <1>9, <1>10, <1>11, <1>12 DEF Next

\* The types; and what a copy says of who is in and who is out is what the log it keeps says, although
\* it is worked out before something is dropped, and again only then (Roster::rebuild).
THEOREM RosterTypes == Spec => []TypeOK
<1> QED
  BY InitInv, StepInv, InvTells, PTL DEF Spec

\* Every copy seats the newest owner the root named in its log, unless an admin's removal from before that
\* took it out: no change by anyone else, whatever else is in the log and whatever was dropped, unseats it.
THEOREM OwnerSeatedAlways == Spec => []OwnerSeated
<1> QED
  BY InitInv, StepInv, InvTells, PTL DEF Spec

\* One hello between two copies is enough for them to be the same, whatever order changes came in and whatever either
\* dropped before, when neither has anything left to drop, all who decide by the two together got in, and no computer
\* is past its share (Roster::merge, Roster::compact).
THEOREM OneHelloAlways == Spec => []OneHello
<1> QED
  BY InitInv, StepInv, InvTells, PTL DEF Spec
=============================================================================
