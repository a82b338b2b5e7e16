--------------------------- MODULE PresetFormProofs ---------------------------
(***************************************************************************)
(* Proofs about PresetForm, for every set of texts that clients may send   *)
(* and every listing of the club: types, what a topic survives, that the   *)
(* run does what the page shows, and that saving again changes nothing.    *)
(*                                                                         *)
(* The run tries sorted slots, so the first part is about ranks: the slot  *)
(* with n - 1 others ahead of it is the n-th.  A place has a rank of its   *)
(* own, because the places ahead of it are a proper part of those ahead of *)
(* any later one, and so the ranks are the numbers 0 to n - 1 and every    *)
(* slot is tried as often as the club listed it.                           *)
(*                                                                         *)
(* The invariant says of a save between its two statements where its topic *)
(* came from as long as no other save has overtaken it, and of a form that *)
(* nobody touched that it shows the row and that its save is of this form. *)
(***************************************************************************)
EXTENDS PresetForm, FiniteSetTheorems, TLAPS

\* A client has at most one save under way.
OneSave == \A c \in Clients : \A v, w \in put[c] : v = w

\* A save that nobody overtook keeps the topic of the row, or was asked not to.
TopicsResolved ==
    \A c \in Clients : \A w \in put[c] :
        \/ w.stale
        \/ w.columns.topic = row.topic
        \/ w.columns.topic = NoTopic /\ w.notify = "off"
        \/ row.topic = NoTopic /\ w.notify = "on"

\* A form that nobody touched since it was filled, nor the row, shows the row.
FormShowsRow == fresh => form = Filled(Shown(row))

\* Its save is the row as it is sent back.
SaveIsOfForm == fresh => \A w \in put["page"] : w.columns = Columns(Sent(form), row.topic)

IInv == TypeOK /\ OneSave /\ TopicsResolved /\ FormShowsRow /\ SaveIsOfForm

-------------------------------------------------------------------------------
(* Sorting.                                                                *)

\* The order of times is total, and strict.
LEMMA BeforeIsAnOrder ==
    /\ \A a \in Times : ~Before(a, a)
    /\ \A a, b \in Times : a = b \/ Before(a, b) \/ Before(b, a)
    /\ \A a, b, c \in Times : Before(a, b) /\ Before(b, c) => Before(a, c)
BY DEF Times, Before

\* What is kept are finitely many places, each with a number and a time.
LEMMA KeptPlaces ==
    ASSUME NEW times \in Seq(Times), NEW cutoff
    PROVE  /\ IsFiniteSet(Kept(times, cutoff))
           /\ Cardinality(Kept(times, cutoff)) \in Nat
           /\ \A k \in Kept(times, cutoff) : k \in Nat /\ times[k] \in Times
<1>1. Kept(times, cutoff) \in SUBSET (1 .. Len(times))
  BY DEF Kept
<1>2. IsFiniteSet(1 .. Len(times))
  BY FS_Interval
<1>3. IsFiniteSet(Kept(times, cutoff))
  BY <1>1, <1>2, FS_Subset
<1> QED
  BY <1>1, <1>3, FS_CardinalityType

\* The places ahead of a place are some of the others; every place is ahead of the other
\* or behind it, and what is ahead of the one ahead is ahead of both.
LEMMA AheadIsAnOrder ==
    ASSUME NEW times, NEW set, \A k \in set : k \in Nat /\ times[k] \in Times,
           NEW i \in set, NEW k \in set
    PROVE  /\ Ahead(times, set, k) \subseteq set /\ k \notin Ahead(times, set, k)
           /\ i = k \/ i \in Ahead(times, set, k) \/ k \in Ahead(times, set, i)
           /\ i \in Ahead(times, set, k) => Ahead(times, set, i) \subseteq Ahead(times, set, k)
<1> DEFINE T == times[i]
           U == times[k]
<1>1. T \in Times /\ U \in Times /\ i \in Nat /\ k \in Nat
  OBVIOUS
<1>2. Ahead(times, set, k) \subseteq set /\ k \notin Ahead(times, set, k)
  BY <1>1, BeforeIsAnOrder DEF Ahead
<1>3. i = k \/ i \in Ahead(times, set, k) \/ k \in Ahead(times, set, i)
  <2>1. T = U \/ Before(T, U) \/ Before(U, T)
    BY <1>1, BeforeIsAnOrder
  <2> QED
    BY <1>1, <2>1 DEF Ahead
<1>4. ASSUME i \in Ahead(times, set, k), NEW j \in Ahead(times, set, i)
      PROVE  j \in Ahead(times, set, k)
  <2>1. j \in set /\ j \in Nat /\ times[j] \in Times
    BY <1>4 DEF Ahead
  <2>2. Before(times[j], T) \/ (times[j] = T /\ j < i)
    BY <1>4 DEF Ahead
  <2>3. Before(T, U) \/ (T = U /\ i < k)
    BY <1>4 DEF Ahead
  <2>4. Before(times[j], T) /\ Before(T, U) => Before(times[j], U)
    BY <1>1, <2>1, BeforeIsAnOrder
  <2>5. Before(times[j], U) \/ (times[j] = U /\ j < k)
    BY <1>1, <2>1, <2>2, <2>3, <2>4
  <2> QED
    BY <2>1, <2>5 DEF Ahead
<1> QED
  BY <1>2, <1>3, <1>4

\* The number of places ahead of a place, counted from one.
Position(times, set, k) == Cardinality(Ahead(times, set, k)) + 1

\* The positions of n places are numbers from 1 to n, and one that is ahead of another has
\* the smaller one.
LEMMA PositionsAreOrdered ==
    ASSUME NEW times, NEW set, IsFiniteSet(set), \A k \in set : k \in Nat /\ times[k] \in Times
    PROVE  /\ \A k \in set : Position(times, set, k) \in 1 .. Cardinality(set)
           /\ \A i, k \in set : i \in Ahead(times, set, k) =>
                                    Position(times, set, i) < Position(times, set, k)
<1> DEFINE A(k) == Ahead(times, set, k)
<1>1. ASSUME NEW k \in set
      PROVE  /\ IsFiniteSet(A(k)) /\ Cardinality(A(k)) \in Nat
             /\ Cardinality(A(k)) < Cardinality(set)
  <2>1. A(k) \in SUBSET set /\ k \notin A(k)
    BY AheadIsAnOrder
  <2>2. IsFiniteSet(A(k)) /\ Cardinality(A(k)) <= Cardinality(set) /\ Cardinality(A(k)) # Cardinality(set)
    <3> HIDE DEF A
    <3> QED BY <2>1, FS_Subset
  <2>3. Cardinality(A(k)) \in Nat /\ Cardinality(set) \in Nat
    BY <2>2, FS_CardinalityType
  <2> QED
    BY <2>2, <2>3
<1>2. ASSUME NEW i \in set, NEW k \in set, i \in A(k)
      PROVE  Cardinality(A(i)) < Cardinality(A(k))
  <2>1. A(i) \in SUBSET A(k) /\ i \notin A(i) /\ i \in A(k)
    BY <1>2, AheadIsAnOrder
  <2>2. IsFiniteSet(A(k)) /\ Cardinality(A(k)) \in Nat /\ Cardinality(A(i)) \in Nat
    BY <1>1
  <2>3. Cardinality(A(i)) <= Cardinality(A(k)) /\ Cardinality(A(i)) # Cardinality(A(k))
    <3> HIDE DEF A
    <3> QED BY <2>1, <2>2, FS_Subset
  <2> QED
    BY <2>2, <2>3
<1>3. Cardinality(set) \in Nat
  BY FS_CardinalityType
<1>4. \A k \in set : Position(times, set, k) \in 1 .. Cardinality(set)
  BY <1>1, <1>3 DEF Position
<1>5. \A i, k \in set : i \in A(k) => Position(times, set, i) < Position(times, set, k)
  BY <1>1, <1>2 DEF Position
<1> QED
  BY <1>4, <1>5

\* Every number from 1 to n is the position of one of the n places, and of one only.
LEMMA PositionsAreFilled ==
    ASSUME NEW times, NEW set, IsFiniteSet(set), \A k \in set : k \in Nat /\ times[k] \in Times
    PROVE  /\ \A i, k \in set : Position(times, set, i) = Position(times, set, k) => i = k
           /\ \A n \in 1 .. Cardinality(set) : \E k \in set : Position(times, set, k) = n
<1> DEFINE P(k) == Position(times, set, k)
           N == Cardinality(set)
           f == [k \in set |-> P(k)]
<1>1. N \in Nat /\ IsFiniteSet(1 .. N) /\ Cardinality(1 .. N) = N
  <2>1. N \in Nat
    BY FS_CardinalityType
  <2> QED
    BY <2>1, FS_Interval
<1>2. \A k \in set : P(k) \in 1 .. N
  BY PositionsAreOrdered
<1>3. ASSUME NEW i \in set, NEW k \in set, P(i) = P(k)
      PROVE  i = k
  <2>1. i = k \/ i \in Ahead(times, set, k) \/ k \in Ahead(times, set, i)
    BY AheadIsAnOrder
  <2>2. i \in Ahead(times, set, k) => P(i) < P(k)
    BY PositionsAreOrdered
  <2>3. k \in Ahead(times, set, i) => P(k) < P(i)
    BY PositionsAreOrdered
  <2>4. P(i) \in 1 .. N /\ P(k) \in 1 .. N
    BY <1>2
  <2> HIDE DEF P, N
  <2> QED
    BY <1>1, <1>3, <2>1, <2>2, <2>3, <2>4
<1>4. f \in Injection(set, 1 .. N)
  <2> HIDE DEF P, N
  <2> QED BY <1>2, <1>3 DEF Injection, IsInjective
<1>5. f \in Surjection(set, 1 .. N)
  <2> HIDE DEF f
  <2> QED BY <1>1, <1>4, FS_Injection
<1>6. \A n \in 1 .. N : \E k \in set : P(k) = n
  <2> HIDE DEF P, N
  <2> QED BY <1>5 DEF Surjection
<1> QED
  BY <1>3, <1>6

\* A set and the set of its images under a function that tells its elements apart have the
\* same number of elements, if the set is finite.
LEMMA SameNumber ==
    ASSUME NEW S, NEW T, NEW f \in [S -> T], IsFiniteSet(S),
           \A x, y \in S : f[x] = f[y] => x = y,
           \A y \in T : \E x \in S : f[x] = y
    PROVE  Cardinality(T) = Cardinality(S)
<1>1. f \in Bijection(S, T)
  BY DEF Bijection, Injection, IsInjective, Surjection
<1>2. ExistsBijection(S, T)
  BY <1>1 DEF ExistsBijection
<1> QED
  BY <1>2, FS_Bijection

\* The run tries every listed slot before the cutoff as often as it is listed, no other
\* slot, and earlier ones first.
LEMMA SlotsAreTried ==
    ASSUME NEW cutoff
    PROVE  TriesBefore(SlotsBeforeCutoff(Listing, cutoff), cutoff)
<1> DEFINE K == Kept(Listing, cutoff)
           N == Cardinality(K)
           P(k) == Position(Listing, K, k)
           at == [n \in 1 .. N |-> CHOOSE k \in K : P(k) = n]
           tries == SlotsBeforeCutoff(Listing, cutoff)
<1>1. /\ IsFiniteSet(K) /\ N \in Nat
      /\ \A k \in K : k \in Nat /\ Listing[k] \in Times
  BY PresetFormTexts, KeptPlaces
<1>2. /\ \A k \in K : P(k) \in 1 .. N
      /\ \A i, k \in K : i \in Ahead(Listing, K, k) => P(i) < P(k)
  <2> HIDE DEF K
  <2> QED BY <1>1, PositionsAreOrdered
<1>3. /\ \A i, k \in K : P(i) = P(k) => i = k
      /\ \A n \in 1 .. N : \E k \in K : P(k) = n
  <2> HIDE DEF K
  <2> QED BY <1>1, PositionsAreFilled
<1>4. \A n \in 1 .. N : at[n] \in K /\ P(at[n]) = n
  <2> HIDE DEF K, N, P
  <2> QED BY <1>3
<1>5. /\ DOMAIN tries = 1 .. N
      /\ \A n \in 1 .. N : tries[n] = Listing[at[n]]
  <2>1. \A n \in 1 .. N : at[n] = CHOOSE k \in K : Cardinality(Ahead(Listing, K, k)) = n - 1
    <3>1. \A k \in K : P(k) = Cardinality(Ahead(Listing, K, k)) + 1 /\ P(k) \in 1 .. N
      BY <1>2 DEF Position
    <3>2. \A k \in K : Cardinality(Ahead(Listing, K, k)) \in Nat
      <4>1. \A k \in K : Ahead(Listing, K, k) \in SUBSET K
        BY DEF Ahead
      <4> HIDE DEF K
      <4> QED BY <1>1, <4>1, FS_Subset, FS_CardinalityType
    <3>3. \A n \in 1 .. N : \A k \in K : P(k) = n <=> Cardinality(Ahead(Listing, K, k)) = n - 1
      <4> HIDE DEF K, N, P
      <4> QED BY <1>1, <3>1, <3>2
    <3> HIDE DEF K, N, P
    <3> QED BY <3>3
  <2> HIDE DEF at
  <2> QED BY <2>1 DEF SlotsBeforeCutoff
<1>6. ASSUME NEW t
      PROVE  Count(tries, t) = IF Before(t, cutoff) THEN Count(Listing, t) ELSE 0
  <2> DEFINE S == {n \in 1 .. N : Listing[at[n]] = t}
             M == {k \in K : Listing[k] = t}
  <2>1. S = {n \in DOMAIN tries : tries[n] = t}
    <3> HIDE DEF tries, at, N, K
    <3> QED BY <1>5
  <2>2. Cardinality(M) = Cardinality(S)
    <3> HIDE DEF at, N, K, P
    <3>1. IsFiniteSet(S)
      <4>1. IsFiniteSet(1 .. N) /\ S \in SUBSET (1 .. N)
        BY <1>1, FS_Interval
      <4> HIDE DEF S
      <4> QED BY <4>1, FS_Subset
    <3> DEFINE f == [n \in S |-> at[n]]
    <3>2. f \in [S -> M]
      BY <1>4
    <3>3. \A x, y \in S : f[x] = f[y] => x = y
      BY <1>4
    <3>4. ASSUME NEW k \in M
          PROVE  \E x \in S : f[x] = k
      <4>1. k \in K /\ Listing[k] = t /\ P(k) \in 1 .. N
        BY <1>2, <3>4
      <4>2. at[P(k)] = k
        BY <1>3, <1>4, <4>1
      <4>3. P(k) \in S
        BY <4>1, <4>2
      <4> QED
        BY <4>2, <4>3
    <3> HIDE DEF f, S, M
    <3> QED BY <3>1, <3>2, <3>3, <3>4, SameNumber
  <2>3. CASE Before(t, cutoff)
    <3>1. M = {k \in DOMAIN Listing : Listing[k] = t}
      BY <2>3 DEF Kept
    <3> QED
      BY <2>1, <2>2, <2>3, <3>1 DEF Count
  <2>4. CASE ~Before(t, cutoff)
    <3>1. M = {}
      BY <2>4 DEF Kept
    <3>2. Cardinality(M) = 0
      BY <3>1, FS_EmptySet
    <3> HIDE DEF S, M
    <3> QED
      BY <2>1, <2>2, <2>4, <3>2 DEF Count
  <2> QED
    BY <2>3, <2>4
<1>7. ASSUME NEW i \in DOMAIN tries, NEW j \in DOMAIN tries, i < j
      PROVE  ~Before(tries[j], tries[i])
  <2> HIDE DEF tries, at, N, K, P
  <2>1. i \in 1 .. N /\ j \in 1 .. N /\ at[i] \in K /\ at[j] \in K /\ P(at[i]) = i /\ P(at[j]) = j
    BY <1>4, <1>5
  <2>2. SUFFICES ASSUME Before(Listing[at[j]], Listing[at[i]])
                 PROVE  FALSE
    BY <1>5, <2>1
  <2>3. at[j] \in Ahead(Listing, K, at[i])
    BY <2>1, <2>2 DEF Ahead
  <2> QED
    BY <1>1, <1>2, <1>7, <2>1, <2>3
<1>8. TriesBefore(tries, cutoff)
  <2> HIDE DEF tries
  <2> QED BY <1>6, <1>7 DEF TriesBefore
<1> QED
  BY <1>8

-------------------------------------------------------------------------------
(* Rows and requests.                                                      *)

\* The fields of a request, but for its list of days.
IsRequest(req) ==
    /\ req.course \in {"", "BRC"}
    /\ req.cutoff \in Clock /\ req.open \in Clock
    /\ req.retry \in Duration /\ req.timeout \in Duration
    /\ req.notify \in {"unset", "on", "off"}

\* The row that the page is shown.
Base == IF row = NoRow THEN Migrated ELSE row

\* Texts that clients send, and the defaults, are texts.
LEMMA TextsTyped ==
    /\ ClockTexts \subseteq Clock /\ DurationTexts \subseteq Duration
    /\ DefaultCutoff \in Clock /\ DefaultBookingOpen \in Clock
    /\ DefaultRetryInterval \in Duration /\ MinRetryInterval \in Duration
    /\ DefaultTimeout \in Duration
    /\ Clock \subseteq [as : ClockSpellings, at : Times]
    /\ Duration \subseteq [as : DurationSpellings, ms : Int]
<1>1. ClockTexts \subseteq Clock
  BY PresetFormTexts DEF Clock
<1>2. DurationTexts \subseteq Duration
  BY PresetFormTexts DEF Duration
<1>3. DefaultCutoff \in Clock /\ DefaultBookingOpen \in Clock
  BY DEF Clock, DefaultCutoff, DefaultBookingOpen, ClockSpellings
<1>4. /\ DefaultRetryInterval \in Duration /\ MinRetryInterval \in Duration
      /\ DefaultTimeout \in Duration
  BY DEF Duration, DefaultRetryInterval, MinRetryInterval, DefaultTimeout, DurationSpellings
<1>5. DefaultCutoff.at \in Times /\ DefaultBookingOpen.at \in Times
  BY DEF DefaultCutoff, DefaultBookingOpen, Times
<1>6. {t.at : t \in ClockTexts} \subseteq Times
  BY PresetFormTexts
<1>7. Clock \subseteq [as : ClockSpellings, at : Times]
  BY <1>5, <1>6 DEF Clock
<1>8. Duration \subseteq [as : DurationSpellings, ms : Int]
  BY PresetFormTexts DEF Duration
<1> QED
  BY <1>1, <1>2, <1>3, <1>4, <1>7, <1>8

\* A text that is read as a time has that time; the unreadable ones have none.
LEMMA ClockRead ==
    ASSUME NEW text \in Clock
    PROVE  /\ parseClock(text) = text.at \/ parseClock(text) = Bad
           /\ ParseClockHM(text) = text.at \/ ParseClockHM(text) = Bad
           /\ ParseClockHM(text) # Bad => ParseClockHM(text) = parseClock(text) /\ ~Blank(text)
           /\ text.at \in Times /\ text.at # Bad
<1>1. text.at \in Times
  BY TextsTyped
<1>2. ASSUME NEW t \in Times
      PROVE  t # Bad
  <2>1. t = <<t[1], t[2], t[3]>>
    BY DEF Times
  <2>2. <<t[1], t[2], t[3]>> # <<>>
    OBVIOUS
  <2> QED
    BY <2>1, <2>2 DEF Bad
<1>3. parseClock(text) = text.at \/ parseClock(text) = Bad
  BY DEF parseClock
<1>4. ParseClockHM(text) = IF Blank(text) THEN Bad ELSE parseClock(text)
  BY DEF ParseClockHM
<1>5. ParseClockHM(text) # Bad => ParseClockHM(text) = parseClock(text) /\ ~Blank(text)
  BY <1>4
<1> QED
  BY <1>1, <1>2, <1>3, <1>4, <1>5

\* A row has other columns than no row has.
LEMMA NoRowIsNoRow == NoRow \notin Rows
<1>1. "course" \notin DOMAIN NoRow
  BY DEF NoRow
<1>2. \A r \in Rows : "course" \in DOMAIN r
  BY DEF Rows
<1> QED
  BY <1>1, <1>2

\* The codes of a canonical list are weekdays, and writing them gives the list.
LEMMA CanonicalLists ==
    /\ \A days \in SUBSET WeekdayCodes :
          /\ SerializeWeekdaySet(days) \in Canonical
          /\ SerializeWeekdaySet(days).codes = days
    /\ \A list \in Canonical :
          /\ list.codes \subseteq WeekdayCodes /\ ParseWeekdayCodes(list) = list.codes
          /\ SerializeWeekdaySet(list.codes) = list
<1>1. ASSUME NEW days \in SUBSET WeekdayCodes
      PROVE  /\ SerializeWeekdaySet(days) \in Canonical
             /\ SerializeWeekdaySet(days).codes = days
  BY DEF Canonical, SerializeWeekdaySet
<1>2. ASSUME NEW list \in Canonical
      PROVE  /\ list.codes \subseteq WeekdayCodes /\ ParseWeekdayCodes(list) = list.codes
             /\ SerializeWeekdaySet(list.codes) = list
  <2>1. PICK days \in SUBSET WeekdayCodes : list = SerializeWeekdaySet(days)
    BY DEF Canonical
  <2>2. list.codes = days
    BY <1>1, <2>1
  <2>3. "" \notin WeekdayCodes
    BY DEF WeekdayCodes
  <2> QED
    BY <2>1, <2>2, <2>3 DEF ParseWeekdayCodes
<1> QED
  BY <1>1, <1>2

\* What SavePreset makes of a retry interval, the scheduler reads, and it is no less than zero.
LEMMA SavedRetryRead ==
    ASSUME NEW text \in Duration
    PROVE  /\ savedRetry(text) \in Duration
           /\ GoReads(savedRetry(text)) /\ savedRetry(text).ms >= 0
<1>1. text.ms \in Int
  BY TextsTyped
<1>2. CASE ~GoReads(text)
  <2>1. savedRetry(text) = DefaultRetryInterval
    BY <1>2 DEF savedRetry
  <2> QED
    BY <2>1, TextsTyped DEF DefaultRetryInterval, GoReads
<1>3. CASE GoReads(text) /\ text.ms < 0
  <2>1. savedRetry(text) = MinRetryInterval
    BY <1>3 DEF savedRetry
  <2> QED
    BY <2>1, TextsTyped DEF MinRetryInterval, GoReads
<1>4. CASE GoReads(text) /\ ~(text.ms < 0)
  <2>1. savedRetry(text) = text
    BY <1>4 DEF savedRetry
  <2> QED
    BY <1>1, <1>4, <2>1
<1> QED
  BY <1>2, <1>3, <1>4

\* What SavePreset makes of an opening time that it does not refuse, the scheduler reads.
LEMMA SavedOpenRead ==
    ASSUME NEW text \in Clock, text.as = "empty" \/ ParseClockHM(text) # Bad
    PROVE  savedOpen(text) \in Clock /\ ParseClockHM(savedOpen(text)) # Bad
<1>1. CASE text.as = "empty"
  <2>1. savedOpen(text) = DefaultBookingOpen
    BY <1>1 DEF savedOpen
  <2>2. ParseClockHM(DefaultBookingOpen) = <<21, 59, 0>>
    BY DEF ParseClockHM, parseClock, Blank, DefaultBookingOpen
  <2>3. <<21, 59, 0>> # Bad
    BY DEF Bad
  <2> QED
    BY <2>1, <2>2, <2>3, TextsTyped
<1>2. CASE text.as # "empty"
  <2>1. ParseClockHM(text) = text.at /\ parseClock(text) = text.at /\ text.at # Bad
    BY <1>2, ClockRead
  <2>2. savedOpen(text) = [as |-> "padded", at |-> text.at]
    BY <1>2, <2>1 DEF savedOpen, FormatClockHM
  <2>3. savedOpen(text) \in Clock
    BY <2>2, TextsTyped DEF Clock, ClockSpellings
  <2>4. ParseClockHM(savedOpen(text)) = text.at
    BY <2>1, <2>2 DEF ParseClockHM, parseClock, Blank
  <2> QED
    BY <2>1, <2>3, <2>4
<1> QED
  BY <1>1, <1>2

\* What SavePreset makes of a request that it does not refuse is a row.
LEMMA ColumnsTyped ==
    ASSUME NEW req, IsRequest(req), ~Refused(req), NEW topic \in 0 .. MaxTopics
    PROVE  Columns(req, topic) \in Rows
<1> DEFINE C == Columns(req, topic)
<1>1. C.retry \in Duration /\ GoReads(C.retry) /\ C.retry.ms >= 0
  BY SavedRetryRead DEF Columns, IsRequest
<1>2. C.open \in Clock /\ ParseClockHM(C.open) # Bad
  <2>1. req.open \in Clock /\ (req.open.as = "empty" \/ ParseClockHM(req.open) # Bad)
    BY DEF IsRequest, Refused
  <2> QED
    BY <2>1, SavedOpenRead DEF Columns
<1>3. C.cutoff \in Clock /\ C.timeout \in Duration
  BY TextsTyped DEF Columns, IsRequest
<1>4. C.alt \in Canonical
  <2>1. ParseWeekdayCodes(req.alt) \in SUBSET WeekdayCodes
    BY DEF Refused, KnownWeekdays
  <2> QED
    BY <2>1, CanonicalLists DEF Columns
<1>5. C.course \in {"", "BRC"} /\ C.topic \in 0 .. MaxTopics
  BY DEF Columns, IsRequest
<1>6. C = [course |-> C.course, cutoff |-> C.cutoff, retry |-> C.retry, timeout |-> C.timeout,
           open |-> C.open, alt |-> C.alt, topic |-> C.topic]
  BY DEF Columns
<1> HIDE DEF C
<1>7. C \in Rows
  BY <1>1, <1>2, <1>3, <1>4, <1>5, <1>6 DEF Rows
<1> QED
  BY <1>7 DEF C

\* The defaults are a row.
LEMMA MigratedIsRow == Migrated \in Rows
<1>1. SerializeWeekdaySet({}) \in Canonical
  BY CanonicalLists
<1>2. ParseClockHM(DefaultBookingOpen) # Bad
  <2>1. ParseClockHM(DefaultBookingOpen) = <<21, 59, 0>>
    BY DEF ParseClockHM, parseClock, Blank, DefaultBookingOpen
  <2> QED
    BY <2>1 DEF Bad
<1>3. GoReads(DefaultRetryInterval) /\ DefaultRetryInterval.ms >= 0
  BY DEF GoReads, DefaultRetryInterval
<1>4. NoTopic \in 0 .. MaxTopics
  BY PresetFormBounds DEF NoTopic
<1> QED
  BY <1>1, <1>2, <1>3, <1>4, TextsTyped DEF Migrated, Rows

\* What the page is shown is a row, as it is stored.
LEMMA ShownRow ==
    ASSUME row = NoRow \/ row \in Rows
    PROVE  Base \in Rows /\ Shown(row) = Base /\ Base.topic = row.topic
<1>1. Base \in Rows
  BY MigratedIsRow DEF Base
<1>2. Base.topic = row.topic
  BY DEF Base, Migrated, NoRow
<1>3. Shown(row) = Base
  <2>1. CASE row = NoRow
    BY <2>1 DEF Shown, Base
  <2>2. CASE row # NoRow
    <3>1. row \in Rows /\ row.alt \in Canonical
      BY <2>2 DEF Rows
    <3>2. SerializeWeekdaySet(ParseWeekdayCodes(row.alt)) = row.alt
      BY <3>1, CanonicalLists
    <3>3. [row EXCEPT !.alt = row.alt] = row
      BY <3>1 DEF Rows
    <3> QED
      BY <2>2, <3>2, <3>3 DEF Shown, Base
  <2> QED
    BY <2>1, <2>2
<1> QED
  BY <1>1, <1>2, <1>3

\* A form that is filled from a row has its texts and its days.
LEMMA FilledTyped ==
    ASSUME NEW r \in Rows
    PROVE  Filled(r) \in Forms /\ Filled(r).alt = r.alt.codes
<1>1. r.alt \in Canonical /\ r.cutoff \in Clock /\ r.open \in Clock
      /\ r.retry \in Duration /\ r.timeout \in Duration
  BY DEF Rows
<1>2. r.alt.codes \subseteq WeekdayCodes
  BY <1>1, CanonicalLists
<1> QED
  BY <1>1, <1>2 DEF Filled, Forms

\* What the page sends is a request.
LEMMA SentTyped ==
    ASSUME NEW f \in Forms
    PROVE  IsRequest(Sent(f))
<1>1. trim(f.retry) \in Duration
  <2>1. f.retry \in Duration /\ f.retry.ms \in Int
    BY TextsTyped DEF Forms
  <2>2. [as |-> "empty", ms |-> 0] \in Duration
    BY DEF Duration, DurationSpellings
  <2>3. [as |-> "plain", ms |-> f.retry.ms] \in Duration
    BY <2>1 DEF Duration, DurationSpellings
  <2> QED
    BY <2>1, <2>2, <2>3 DEF trim
<1> QED
  BY <1>1 DEF Sent, IsRequest, Forms

-------------------------------------------------------------------------------
(* The invariant.                                                          *)

\* It holds at first.
LEMMA InitIInv == Init => IInv
<1> SUFFICES ASSUME Init
             PROVE  IInv
  OBVIOUS
<1>1. row = NoRow \/ row \in Rows
  BY MigratedIsRow DEF Init
<1>2. form \in Forms /\ form = Filled(Shown(row))
  BY <1>1, ShownRow, FilledTyped DEF Init
<1>3. \A c \in Clients : put[c] = {}
  BY DEF Init
<1>4. TypeOK
  BY <1>1, <1>2, PresetFormBounds DEF Init, TypeOK
<1>5. OneSave /\ TopicsResolved /\ FormShowsRow /\ SaveIsOfForm
  BY <1>2, <1>3 DEF OneSave, TopicsResolved, FormShowsRow, SaveIsOfForm, Clients
<1> QED
  BY <1>4, <1>5 DEF IInv

\* The topic a request gets: that of the row, none if it asked for none, or a new one if
\* it asked for one where there was none.
LEMMA TopicResolved ==
    ASSUME NEW existing, NEW enable \in {"unset", "on", "off"}
    PROVE  \/ resolveNtfyTopic(existing, enable) = existing
           \/ resolveNtfyTopic(existing, enable) = NoTopic /\ enable = "off"
           \/ existing = NoTopic /\ enable = "on"
BY DEF resolveNtfyTopic

\* The first statement of a save keeps it.
LEMMA ReadStep ==
    ASSUME IInv, NEW c \in Clients, NEW req, IsRequest(req), Read(c, req),
           c = "page" => req = Sent(form)
    PROVE  IInv'
<1> DEFINE topic == resolveNtfyTopic(row.topic, req.notify)
           w == [columns |-> Columns(req, topic), notify |-> req.notify, stale |-> FALSE]
<1>1. /\ put[c] = {} /\ saves < MaxSaves /\ ~Refused(req) /\ topic <= MaxTopics
      /\ topics' = (IF topic > topics THEN topic ELSE topics)
      /\ put' = [put EXCEPT ![c] = {w}]
      /\ saves' = saves + 1
      /\ row' = row /\ form' = form /\ edits' = edits /\ fresh' = fresh
  BY DEF Read
<1>2. /\ row = NoRow \/ row \in Rows
      /\ form \in Forms /\ put \in [Clients -> SUBSET Saves]
      /\ edits \in 0 .. MaxEdits /\ saves \in 0 .. MaxSaves /\ topics \in 0 .. MaxTopics
      /\ fresh \in BOOLEAN
  BY DEF IInv, TypeOK
<1>3. req.notify \in {"unset", "on", "off"}
  BY DEF IsRequest
<1>4. row.topic \in 0 .. MaxTopics
  <2>1. Base \in Rows /\ Base.topic = row.topic
    BY <1>2, ShownRow
  <2> QED
    BY <2>1 DEF Rows
<1>5. topic \in 0 .. MaxTopics
  BY <1>1, <1>2, <1>3, <1>4, PresetFormBounds DEF resolveNtfyTopic, NoTopic
<1>6. w \in Saves
  <2>1. Columns(req, topic) \in Rows
    <3> HIDE DEF topic
    <3> QED BY <1>1, <1>5, ColumnsTyped
  <2> QED
    BY <1>3, <2>1 DEF Saves
<1>7. /\ put' \in [Clients -> SUBSET Saves]
      /\ \A d \in Clients : put'[d] = IF d = c THEN {w} ELSE put[d]
  <2> HIDE DEF w
  <2> QED BY <1>1, <1>2, <1>6
<1>8. TypeOK'
  <2>1. topics' \in 0 .. MaxTopics /\ saves' \in 0 .. MaxSaves
    <3> HIDE DEF topic
    <3> QED BY <1>1, <1>2, <1>5, PresetFormBounds
  <2> QED
    BY <1>1, <1>2, <1>7, <2>1 DEF TypeOK
<1>9. OneSave'
  <2> HIDE DEF w
  <2> QED BY <1>7 DEF IInv, OneSave
<1>10. TopicsResolved'
  <2>1. ASSUME NEW d \in Clients, NEW v \in put'[d]
        PROVE  \/ v.stale
               \/ v.columns.topic = row.topic
               \/ v.columns.topic = NoTopic /\ v.notify = "off"
               \/ row.topic = NoTopic /\ v.notify = "on"
    <3>1. CASE d = c
      <4>1. v = w
        <5> HIDE DEF w
        <5> QED BY <1>7, <2>1, <3>1
      <4>2. v.columns.topic = topic /\ v.notify = req.notify
        <5> HIDE DEF topic
        <5> QED BY <4>1 DEF Columns
      <4>3. \/ topic = row.topic
            \/ topic = NoTopic /\ req.notify = "off"
            \/ row.topic = NoTopic /\ req.notify = "on"
        BY <1>3, TopicResolved
      <4> QED
        BY <4>2, <4>3
    <3>2. CASE d # c
      <4>1. v \in put[d]
        <5> HIDE DEF w
        <5> QED BY <1>7, <2>1, <3>2
      <4> QED
        BY <4>1 DEF IInv, TopicsResolved
    <3> QED
      BY <3>1, <3>2
  <2> QED
    BY <1>1, <2>1 DEF TopicsResolved
<1>11. FormShowsRow'
  BY <1>1 DEF IInv, FormShowsRow, Filled, Shown
<1>12. SaveIsOfForm'
  <2>1. ASSUME fresh, NEW v \in put'["page"]
        PROVE  v.columns = Columns(Sent(form), row.topic)
    <3>1. "page" \in Clients
      BY DEF Clients
    <3>2. CASE c = "page"
      <4>1. v = w /\ req = Sent(form)
        <5> HIDE DEF w
        <5> QED BY <1>7, <2>1, <3>2
      <4>2. form.notify = (row.topic # NoTopic)
        <5>1. form = Filled(Base) /\ Base.topic = row.topic
          BY <1>2, <2>1, ShownRow DEF IInv, FormShowsRow
        <5> QED
          BY <5>1 DEF Filled
      <4>3. req.notify = IF form.notify THEN "on" ELSE "off"
        BY <4>1 DEF Sent
      <4>4. topic = row.topic
        BY <4>2, <4>3 DEF resolveNtfyTopic
      <4> QED
        BY <4>1, <4>4
    <3>3. CASE c # "page"
      <4>1. v \in put["page"]
        <5> HIDE DEF w
        <5> QED BY <1>7, <2>1, <3>1, <3>3
      <4> QED
        BY <2>1, <4>1 DEF IInv, SaveIsOfForm
    <3> QED
      BY <3>2, <3>3
  <2> QED
    BY <1>1, <2>1 DEF SaveIsOfForm, Sent, Columns
<1> QED
  BY <1>8, <1>9, <1>10, <1>11, <1>12 DEF IInv

\* What the other client sends is a request.
LEMMA PlainTyped ==
    /\ \A n \in {"unset", "on", "off"} : IsRequest([Plain EXCEPT !.notify = n])
    /\ IsRequest([Plain EXCEPT !.course = "BRC"])
    /\ \A t \in ClockTexts : /\ IsRequest([Plain EXCEPT !.cutoff = t])
                             /\ IsRequest([Plain EXCEPT !.open = t])
    /\ \A t \in DurationTexts : /\ IsRequest([Plain EXCEPT !.retry = t])
                                /\ IsRequest([Plain EXCEPT !.timeout = t])
    /\ \A l \in DayLists : IsRequest([Plain EXCEPT !.alt = l])
BY TextsTyped DEF IsRequest, Plain

\* An edit keeps it: no save of the page is under way.
LEMMA EditStep == IInv /\ Edit => IInv'
<1> SUFFICES ASSUME IInv, Edit
             PROVE  IInv'
  OBVIOUS
<1>1. /\ row = NoRow \/ row \in Rows
      /\ form \in Forms /\ put \in [Clients -> SUBSET Saves]
      /\ edits \in 0 .. MaxEdits /\ saves \in 0 .. MaxSaves /\ topics \in 0 .. MaxTopics
      /\ fresh \in BOOLEAN
  BY DEF IInv, TypeOK
<1>2. /\ edits' = edits + 1 /\ edits < MaxEdits /\ fresh' = FALSE
      /\ row' = row /\ put' = put /\ saves' = saves /\ topics' = topics
  BY DEF Edit
<1>3. form' \in Forms
  <2>1. InputTimes \subseteq Clock /\ DurationTexts \subseteq Duration
    BY TextsTyped DEF InputTimes
  <2>2. \A t \in Clock : [form EXCEPT !.cutoff = t] \in Forms /\ [form EXCEPT !.open = t] \in Forms
    BY <1>1 DEF Forms
  <2>3. \A t \in Duration : [form EXCEPT !.retry = t] \in Forms /\ [form EXCEPT !.timeout = t] \in Forms
    BY <1>1 DEF Forms
  <2>4. \A b \in BOOLEAN : [form EXCEPT !.notify = b] \in Forms
    BY <1>1 DEF Forms
  <2>5. \A s \in SUBSET WeekdayCodes : [form EXCEPT !.alt = s] \in Forms
    BY <1>1 DEF Forms
  <2>6. form.alt \in SUBSET WeekdayCodes
    BY <1>1 DEF Forms
  <2>7. \/ \E t \in InputTimes : form' = [form EXCEPT !.cutoff = t]
        \/ \E t \in InputTimes : form' = [form EXCEPT !.open = t]
        \/ \E t \in DurationTexts : form' = [form EXCEPT !.retry = t]
        \/ \E t \in DurationTexts : form' = [form EXCEPT !.timeout = t]
        \/ \E b \in BOOLEAN : form' = [form EXCEPT !.notify = b]
        \/ \E s \in SUBSET WeekdayCodes : form' = [form EXCEPT !.alt = s]
    <3>1. \A b \in BOOLEAN : b = ~form.notify => b \in BOOLEAN
      OBVIOUS
    <3>2. (~form.notify) \in BOOLEAN
      OBVIOUS
    <3>3. \A d \in WeekdayCodes : (IF d \in form.alt THEN form.alt \ {d} ELSE form.alt \union {d})
                                     \in SUBSET WeekdayCodes
      BY <2>6
    <3> QED
      BY <3>2, <3>3, Zenon DEF Edit
  <2> QED
    BY <2>1, <2>2, <2>3, <2>4, <2>5, <2>7
<1>4. TypeOK'
  <2>1. edits' \in 0 .. MaxEdits
    BY <1>1, <1>2, PresetFormBounds
  <2> QED
    BY <1>1, <1>2, <1>3, <2>1 DEF TypeOK
<1>5. OneSave' /\ TopicsResolved'
  BY <1>2 DEF IInv, OneSave, TopicsResolved
<1>6. FormShowsRow' /\ SaveIsOfForm'
  BY <1>2 DEF FormShowsRow, SaveIsOfForm
<1> QED
  BY <1>4, <1>5, <1>6 DEF IInv

\* The second statement of a save keeps it: the other save is overtaken.
LEMMA WriteStep ==
    ASSUME IInv, NEW c \in Clients, Write(c)
    PROVE  IInv'
<1>1. PICK w \in put[c] :
        /\ row' = w.columns
        /\ put' = [d \in Clients |-> IF d = c THEN {}
                                     ELSE {[v EXCEPT !.stale = TRUE] : v \in put[d]}]
        /\ fresh' = FALSE
        /\ form' = form /\ edits' = edits /\ saves' = saves /\ topics' = topics
  BY DEF Write
<1>2. /\ form \in Forms /\ put \in [Clients -> SUBSET Saves]
      /\ edits \in 0 .. MaxEdits /\ saves \in 0 .. MaxSaves /\ topics \in 0 .. MaxTopics
      /\ fresh \in BOOLEAN
  BY DEF IInv, TypeOK
<1>3. w \in Saves /\ row' \in Rows
  BY <1>1, <1>2 DEF Saves
<1>4. ASSUME NEW d \in Clients, NEW v \in put'[d]
      PROVE  d # c /\ v.stale /\ v \in Saves /\ \E u \in put[d] : v = [u EXCEPT !.stale = TRUE]
  <2>1. d # c /\ v \in {[u EXCEPT !.stale = TRUE] : u \in put[d]}
    BY <1>1, <1>4
  <2>2. PICK u \in put[d] : v = [u EXCEPT !.stale = TRUE]
    BY <2>1
  <2>3. u \in Saves
    BY <1>2, <2>2
  <2>4. v \in Saves /\ v.stale
    BY <2>2, <2>3 DEF Saves
  <2> QED
    BY <2>1, <2>2, <2>4
<1>5. TypeOK'
  <2>1. put' \in [Clients -> SUBSET Saves]
    BY <1>1, <1>4
  <2> QED
    BY <1>1, <1>2, <1>3, <2>1 DEF TypeOK
<1>6. OneSave'
  <2>1. ASSUME NEW d \in Clients, NEW v \in put'[d], NEW x \in put'[d]
        PROVE  v = x
    <3>1. PICK u \in put[d] : v = [u EXCEPT !.stale = TRUE]
      BY <1>4
    <3>2. PICK y \in put[d] : x = [y EXCEPT !.stale = TRUE]
      BY <1>4
    <3>3. u = y
      BY <3>1, <3>2 DEF IInv, OneSave
    <3> QED
      BY <3>1, <3>2, <3>3
  <2> QED
    BY <2>1 DEF OneSave
<1>7. TopicsResolved'
  BY <1>4 DEF TopicsResolved
<1>8. FormShowsRow' /\ SaveIsOfForm'
  BY <1>1 DEF FormShowsRow, SaveIsOfForm
<1> QED
  BY <1>5, <1>6, <1>7, <1>8 DEF IInv

\* Loading keeps it: the form is filled from the row.
LEMMA LoadStep == IInv /\ Load => IInv'
<1> SUFFICES ASSUME IInv, Load
             PROVE  IInv'
  OBVIOUS
<1>1. /\ row = NoRow \/ row \in Rows
      /\ form \in Forms /\ put \in [Clients -> SUBSET Saves]
      /\ edits \in 0 .. MaxEdits /\ saves \in 0 .. MaxSaves /\ topics \in 0 .. MaxTopics
      /\ fresh \in BOOLEAN
  BY DEF IInv, TypeOK
<1>2. /\ put["page"] = {} /\ form' = Filled(Shown(row)) /\ edits' = 0 /\ fresh' = TRUE
      /\ row' = row /\ put' = put /\ saves' = saves /\ topics' = topics
  BY DEF Load
<1>3. form' \in Forms
  BY <1>1, <1>2, ShownRow, FilledTyped
<1>4. TypeOK'
  BY <1>1, <1>2, <1>3, PresetFormBounds DEF TypeOK
<1>5. OneSave' /\ TopicsResolved'
  BY <1>2 DEF IInv, OneSave, TopicsResolved
<1>6. FormShowsRow' /\ SaveIsOfForm'
  BY <1>2 DEF FormShowsRow, SaveIsOfForm
<1> QED
  BY <1>4, <1>5, <1>6 DEF IInv

\* Every step keeps it.
LEMMA Invariance == IInv /\ [Next]_vars => IInv'
<1> SUFFICES ASSUME IInv, [Next]_vars
             PROVE  IInv'
  OBVIOUS
<1>1. CASE Edit
  BY <1>1, EditStep
<1>2. CASE Submit
  <2>1. Read("page", Sent(form)) /\ form \in Forms /\ "page" \in Clients
    BY <1>2 DEF Submit, IInv, TypeOK, Clients
  <2> QED
    BY <2>1, SentTyped, ReadStep
<1>3. CASE Request
  <2>1. "other" \in Clients /\ "other" # "page"
    BY DEF Clients
  <2>2. \E req : IsRequest(req) /\ Read("other", req)
    BY <1>3, PlainTyped DEF Request
  <2> QED
    BY <2>1, <2>2, ReadStep
<1>4. CASE Load
  BY <1>4, LoadStep
<1>5. ASSUME NEW c \in Clients, Write(c)
      PROVE  IInv'
  BY <1>5, WriteStep
<1>6. CASE UNCHANGED vars
  BY <1>6 DEF vars, IInv, TypeOK, OneSave, TopicsResolved, FormShowsRow, SaveIsOfForm, Filled,
              Shown, Columns, Sent
<1> QED
  BY <1>1, <1>2, <1>3, <1>4, <1>5, <1>6 DEF Next

\* Types, in every reachable state; with them, that the rows SavePreset writes can be read
\* by the scheduler without a fallback for the opening time and the retry interval.
THEOREM PresetFormTypes == Spec => []TypeOK
<1>1. IInv => TypeOK
  BY DEF IInv
<1> QED
  BY InitIInv, Invariance, <1>1, PTL DEF Spec

-------------------------------------------------------------------------------
(* What follows.                                                           *)

\* A step that takes a save of a client away is the second statement of this save.
LEMMA OnlyWriteEnds ==
    ASSUME IInv, [Next]_vars, NEW c \in Clients, NEW w \in put[c], put'[c] = {}
    PROVE  Write(c) /\ row' = w.columns
<1>1. ASSUME NEW d \in Clients, NEW req, Read(d, req)
      PROVE  FALSE
  <2>1. put' = [put EXCEPT ![d] = {[columns |-> Columns(req, resolveNtfyTopic(row.topic, req.notify)),
                                    notify |-> req.notify, stale |-> FALSE]}]
    BY <1>1 DEF Read
  <2>2. put \in [Clients -> SUBSET Saves]
    BY DEF IInv, TypeOK
  <2>3. put'[c] = put[c] \/ put'[c] # {}
    BY <2>1, <2>2
  <2> QED
    BY <2>3
<1>2. ~Submit /\ ~Request
  BY <1>1 DEF Submit, Request, Clients
<1>3. put' # put
  OBVIOUS
<1>4. ~Edit /\ ~Load /\ ~UNCHANGED vars
  BY <1>3 DEF Edit, Load, vars
<1>5. PICK d \in Clients : Write(d)
  BY <1>2, <1>4 DEF Next
<1>6. d = c
  <2>1. put' = [e \in Clients |-> IF e = d THEN {} ELSE {[v EXCEPT !.stale = TRUE] : v \in put[e]}]
    BY <1>5 DEF Write
  <2> DEFINE overtaken(v) == [v EXCEPT !.stale = TRUE]
  <2>2. c # d => put'[c] = {overtaken(v) : v \in put[c]}
    BY <2>1
  <2> HIDE DEF overtaken
  <2> QED
    BY <2>2
<1>7. \A v \in put[c] : v = w
  BY DEF IInv, OneSave
<1>8. row' = w.columns
  BY <1>5, <1>6, <1>7 DEF Write
<1> QED
  BY <1>5, <1>6, <1>8

\* Topics survive the saves of two clients that interleave, unless a save was overtaken:
\* resolveNtfyTopic decides by the row that the handler had read.
THEOREM TopicsSurvive == Spec => TopicsKept
<1>1. ASSUME IInv, [Next]_vars
      PROVE  [\A c \in Clients : \A w \in put[c] : put'[c] = {} =>
                 \/ w.stale
                 \/ row'.topic = row.topic
                 \/ row'.topic = NoTopic /\ w.notify = "off"
                 \/ row.topic = NoTopic /\ w.notify = "on"]_vars
  <2>1. ASSUME NEW c \in Clients, NEW w \in put[c], put'[c] = {}
        PROVE  \/ w.stale
               \/ row'.topic = row.topic
               \/ row'.topic = NoTopic /\ w.notify = "off"
               \/ row.topic = NoTopic /\ w.notify = "on"
    <3>1. row' = w.columns
      BY <1>1, <2>1, OnlyWriteEnds
    <3> QED
      BY <1>1, <3>1 DEF IInv, TopicsResolved
  <2> QED
    BY <2>1
<1> QED
  BY <1>1, InitIInv, Invariance, PTL DEF Spec, TopicsKept

\* Sending the columns of a row back gives columns that mean the same to the run.
LEMMA SentBack ==
    ASSUME NEW r \in Rows, NEW now
    PROVE  Plan(Columns(Sent(Filled(r)), r.topic), now) = [Plan(r, now) EXCEPT !.course = ""]
<1> DEFINE C == Columns(Sent(Filled(r)), r.topic)
<1>1. /\ r.cutoff \in Clock /\ r.open \in Clock /\ r.retry \in Duration /\ r.timeout \in Duration
      /\ r.alt \in Canonical /\ ParseClockHM(r.open) # Bad /\ GoReads(r.retry) /\ r.retry.ms >= 0
  BY DEF Rows
<1>2. C.course = "" /\ C.topic = r.topic
  BY DEF Columns, Sent, Filled
<1>3. ParseCutoff(C.cutoff) = ParseCutoff(r.cutoff)
  <2>1. C.cutoff = IF r.cutoff.as = "empty" THEN DefaultCutoff ELSE r.cutoff
    BY DEF Columns, Sent, Filled
  <2>2. ParseCutoff(DefaultCutoff) = DefaultCutoff.at
    BY DEF ParseCutoff, parseClock, Blank, DefaultCutoff
  <2>3. r.cutoff.as = "empty" => ParseCutoff(r.cutoff) = DefaultCutoff.at
    BY DEF ParseCutoff, Blank
  <2> QED
    BY <2>1, <2>2, <2>3
<1>4. ParseClockHM(C.open) = ParseClockHM(r.open)
  <2>1. ParseClockHM(r.open) = r.open.at /\ parseClock(r.open) = r.open.at /\ r.open.at # Bad
        /\ ~Blank(r.open)
    BY <1>1, ClockRead
  <2>2. C.open = savedOpen(r.open)
    BY DEF Columns, Sent, Filled
  <2>3. C.open = [as |-> "padded", at |-> r.open.at]
    BY <2>1, <2>2 DEF savedOpen, FormatClockHM, Blank
  <2> QED
    BY <2>1, <2>3 DEF ParseClockHM, parseClock, Blank
<1>5. C.retry = r.retry
  <2>1. C.retry = savedRetry(trim(r.retry))
    BY DEF Columns, Sent, Filled
  <2>2. trim(r.retry) = r.retry
    BY <1>1 DEF trim, GoReads
  <2>3. r.retry.ms \in Int
    BY <1>1, TextsTyped
  <2> QED
    BY <1>1, <2>1, <2>2, <2>3 DEF savedRetry
<1>6. C.timeout = IF r.timeout.as = "empty" THEN DefaultTimeout ELSE r.timeout
  BY DEF Columns, Sent, Filled
<1>7. Plan(C, now).deadline = Plan(r, now).deadline
  <2>1. CASE r.timeout.as # "empty"
    BY <1>6, <2>1 DEF Plan
  <2>2. CASE r.timeout.as = "empty"
    <3>1. C.timeout = DefaultTimeout /\ ~GoReads(r.timeout)
      BY <1>6, <2>2 DEF GoReads
    <3> HIDE DEF C
    <3> QED
      BY <3>1 DEF Plan, DefaultTimeout, GoReads
  <2> QED
    BY <2>1, <2>2
<1>8. ParseWeekdayCodes(C.alt) = ParseWeekdayCodes(r.alt)
  <2>1. r.alt.codes \in SUBSET WeekdayCodes /\ ParseWeekdayCodes(r.alt) = r.alt.codes
    BY <1>1, CanonicalLists
  <2>2. Filled(r).alt = r.alt.codes
    BY FilledTyped
  <2>3. Sent(Filled(r)).alt.codes = r.alt.codes
    BY <2>2 DEF Sent
  <2>4. "" \notin WeekdayCodes
    BY DEF WeekdayCodes
  <2>5. ParseWeekdayCodes(Sent(Filled(r)).alt) = r.alt.codes
    BY <2>1, <2>3, <2>4 DEF ParseWeekdayCodes
  <2>6. C.alt = SerializeWeekdaySet(r.alt.codes)
    BY <2>5 DEF Columns
  <2>7. C.alt = r.alt
    BY <1>1, <2>6, CanonicalLists
  <2> QED
    BY <2>7
<1>9. Plan(C, now) = [Plan(r, now) EXCEPT !.course = ""]
  <2> HIDE DEF C
  <2> DEFINE A == Plan(C, now)
             B == Plan(r, now)
             Record(p, course) ==
                 [course |-> course, startsAt |-> p.startsAt, fails |-> p.fails,
                  tries |-> p.tries, deadline |-> p.deadline, retry |-> p.retry,
                  alt |-> p.alt, topic |-> p.topic]
  <2>1. /\ A.course = "" /\ A.startsAt = B.startsAt /\ A.fails = B.fails
        /\ A.tries = B.tries /\ A.retry = B.retry /\ A.alt = B.alt /\ A.topic = B.topic
    BY <1>2, <1>3, <1>4, <1>5, <1>8 DEF Plan
  <2>2. A.deadline = B.deadline
    BY <1>7
  <2>3. A = Record(A, A.course)
    BY DEF Plan
  <2>4. B = Record(B, B.course)
    BY DEF Plan
  <2> HIDE DEF A, B
  <2>5. A = [B EXCEPT !.course = ""]
    BY <2>1, <2>2, <2>3, <2>4
  <2> QED
    BY <2>5 DEF A, B
<1> QED
  BY <1>9

\* Whoever opens the settings page and saves it untouched, with no other save in between,
\* changes nothing of what the scheduler will do, although each text is parsed and written
\* anew by page and handler; only a fixed course is cleared.
THEOREM SavingAgainIsSafe == Spec => ResavingChangesNothing
<1>1. ASSUME IInv, [Next]_vars
      PROVE  [put["page"] # {} /\ put'["page"] = {} /\ fresh =>
                 \A now \in Fires :
                     Plan(row', now) =
                         [Plan(IF row = NoRow THEN Migrated ELSE row, now) EXCEPT !.course = ""]]_vars
  <2>1. ASSUME put["page"] # {}, put'["page"] = {}, fresh, NEW now \in Fires
        PROVE  Plan(row', now) =
                   [Plan(IF row = NoRow THEN Migrated ELSE row, now) EXCEPT !.course = ""]
    <3>1. PICK w \in put["page"] : TRUE
      BY <2>1
    <3>2. row' = w.columns
      BY <1>1, <2>1, <3>1, OnlyWriteEnds DEF Clients
    <3>3. w.columns = Columns(Sent(form), row.topic) /\ form = Filled(Shown(row))
      BY <1>1, <2>1, <3>1 DEF IInv, SaveIsOfForm, FormShowsRow
    <3>4. Base \in Rows /\ Shown(row) = Base /\ Base.topic = row.topic
      BY <1>1, ShownRow DEF IInv, TypeOK
    <3>5. row' = Columns(Sent(Filled(Base)), Base.topic)
      BY <3>2, <3>3, <3>4
    <3>6. Plan(row', now) = [Plan(Base, now) EXCEPT !.course = ""]
      BY <3>4, <3>5, SentBack
    <3> QED
      BY <3>6 DEF Base
  <2> QED
    BY <2>1
<1> QED
  BY <1>1, InitIInv, Invariance, PTL DEF Spec, ResavingChangesNothing

\* What the run makes of a row is what a form filled from it shows.
LEMMA PlanOfFilled ==
    ASSUME NEW r \in Rows, NEW now \in Fires
    PROVE  LET plan == Plan(r, now)
               f == Filled(r)
           IN  /\ TimeShown(f.cutoff) => ~plan.fails /\ TriesBefore(plan.tries, f.cutoff.at)
               /\ plan.fails => ~TimeShown(f.cutoff) /\ f.cutoff.as # "empty"
               /\ plan.startsAt \in {now, f.open.at} /\ ~Before(plan.startsAt, now)
               /\ now = CronFire /\ Before(now, f.open.at) => plan.startsAt = f.open.at
               /\ PageReads(f.retry) => plan.retry = f.retry.ms
               /\ plan.deadline = IF GoReads(f.timeout) /\ f.timeout.ms >= 0
                                    THEN f.timeout.ms
                                  ELSE IF GoReads(f.timeout) THEN NoDeadline ELSE 600000
               /\ plan.alt = f.alt
               /\ (plan.topic # NoTopic) = f.notify
<1> DEFINE plan == Plan(r, now)
           f == Filled(r)
<1>1. /\ r.cutoff \in Clock /\ r.open \in Clock /\ r.retry \in Duration /\ r.timeout \in Duration
      /\ r.alt \in Canonical /\ ParseClockHM(r.open) # Bad /\ GoReads(r.retry) /\ r.retry.ms >= 0
  BY DEF Rows
<1>2. /\ f.cutoff = r.cutoff /\ f.open = r.open /\ f.retry = r.retry /\ f.timeout = r.timeout
      /\ f.notify = (r.topic # NoTopic) /\ f.alt = r.alt.codes
  BY FilledTyped DEF Filled
<1>3. now \in Times /\ r.open.at \in Times
  BY <1>1, ClockRead DEF Fires, CronFire, Times
<1>4. TimeShown(f.cutoff) => ~plan.fails /\ TriesBefore(plan.tries, f.cutoff.at)
  <2>1. SUFFICES ASSUME TimeShown(r.cutoff)
                 PROVE  ~plan.fails /\ TriesBefore(plan.tries, r.cutoff.at)
    BY <1>2
  <2>2. ParseCutoff(r.cutoff) = r.cutoff.at /\ r.cutoff.at # Bad
    BY <1>1, <2>1, ClockRead DEF TimeShown, ParseCutoff, Blank
  <2>3. ~plan.fails /\ plan.tries = SlotsBeforeCutoff(Listing, r.cutoff.at)
    BY <2>2 DEF Plan
  <2> QED
    BY <2>3, SlotsAreTried
<1>5. plan.fails => ~TimeShown(f.cutoff) /\ f.cutoff.as # "empty"
  <2>1. SUFFICES ASSUME ParseCutoff(r.cutoff) = Bad
                 PROVE  ~TimeShown(r.cutoff) /\ r.cutoff.as # "empty"
    BY <1>2 DEF Plan
  <2>2. ~TimeShown(r.cutoff)
    BY <2>1 DEF TimeShown, ParseCutoff, Blank
  <2>3. DefaultCutoff.at # Bad
    BY TextsTyped, ClockRead
  <2> QED
    BY <2>1, <2>2, <2>3 DEF ParseCutoff, Blank
<1>6. plan.startsAt = IF now[1] < MinHour \/ ~Before(now, r.open.at) THEN now ELSE r.open.at
  <2>1. ParseClockHM(r.open) = r.open.at
    BY <1>1, ClockRead
  <2> QED
    BY <2>1 DEF Plan, sleepUntilBookingOpen
<1>7. plan.startsAt \in {now, f.open.at} /\ ~Before(plan.startsAt, now)
  <2>1. plan.startsAt = now \/ (plan.startsAt = r.open.at /\ Before(now, r.open.at))
    BY <1>6
  <2>2. ~Before(now, now) /\ (Before(now, r.open.at) => ~Before(r.open.at, now))
    BY <1>3, BeforeIsAnOrder
  <2> HIDE DEF plan, f
  <2> QED
    BY <1>2, <2>1, <2>2
<1>8. now = CronFire /\ Before(now, f.open.at) => plan.startsAt = f.open.at
  <2>1. now = CronFire => ~(now[1] < MinHour)
    BY DEF CronFire, MinHour
  <2> HIDE DEF plan, f
  <2> QED
    BY <1>2, <1>6, <2>1
<1>9. PageReads(f.retry) => plan.retry = f.retry.ms
  <2>1. r.retry.ms \in Int
    BY <1>1, TextsTyped
  <2>2. plan.retry = r.retry.ms
    BY <1>1, <2>1 DEF Plan
  <2> HIDE DEF plan, f
  <2> QED
    BY <1>2, <2>2
<1>10. plan.deadline = IF GoReads(f.timeout) /\ f.timeout.ms >= 0 THEN f.timeout.ms
                       ELSE IF GoReads(f.timeout) THEN NoDeadline ELSE 600000
  <2>1. r.timeout.ms \in Int
    BY <1>1, TextsTyped
  <2>2. plan.deadline = IF ~GoReads(r.timeout) THEN 600000
                        ELSE IF r.timeout.ms > 0 THEN r.timeout.ms ELSE 0
    BY DEF Plan, DefaultTimeout, NoDeadline
  <2> HIDE DEF plan, f
  <2> QED
    BY <1>2, <2>1, <2>2 DEF NoDeadline
<1>11. plan.alt = f.alt
  BY <1>1, <1>2, CanonicalLists DEF Plan
<1>12. (plan.topic # NoTopic) = f.notify
  BY <1>2 DEF Plan
<1> QED
  BY <1>4, <1>5, <1>7, <1>8, <1>9, <1>10, <1>11, <1>12

\* The run does what the page shows: slots before the cutoff and no others, earlier ones
\* first, from the time shown on, with the pauses, the deadline, the days and the
\* notifications shown, for every text that a client may have saved.
THEOREM RunsDoWhatIsShown == Spec => []ShownIsDone
<1>1. ASSUME IInv
      PROVE  ShownIsDone
  <2>1. ASSUME fresh, row # NoRow
        PROVE  row \in Rows /\ form = Filled(row)
    BY <1>1, <2>1, ShownRow DEF IInv, TypeOK, FormShowsRow, Base
  <2> QED
    BY <2>1, PlanOfFilled DEF ShownIsDone
<1> QED
  BY <1>1, InitIInv, Invariance, PTL DEF Spec

===============================================================================
