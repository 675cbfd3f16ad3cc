--------------------------- MODULE EnvVarsProofs ---------------------------
(* Theorems about EnvVars for all lists that users write.                     *)
(*                                                                            *)
(* What Filtered makes of a list is shown by induction on its length, in the  *)
(* form of a least counterexample: a set of lengths that is not empty has a   *)
(* least element.                                                             *)
EXTENDS EnvVars, SequenceTheorems, WellFoundedInduction, TLAPS

-----------------------------------------------------------------------------
(* Least counterexamples.                                                    *)

LEMMA LessThan ==
    \E R : IsWellFoundedOn(R, Nat) /\ \A y, m \in Nat : y < m => <<y, m>> \in R
  <1>1. IsWellFoundedOn(OpToRel(<, Nat), Nat)
    BY NatLessThanWellFounded
  <1>2. \A y, m \in Nat : y < m => <<y, m>> \in OpToRel(<, Nat)
    BY DEF OpToRel
  <1> QED BY <1>1, <1>2

LEMMA Least ==
    ASSUME NEW T \in SUBSET Nat, T # {}
    PROVE  \E m \in T : \A k \in T : m <= k
  <1>1. PICK R : IsWellFoundedOn(R, Nat) /\ \A y, m \in Nat : y < m => <<y, m>> \in R
    BY LessThan
  <1>2. PICK m \in T : \A y \in T : ~(<<y, m>> \in R)
    <2>1. IsWellFoundedOn(R, Nat) /\ T \subseteq Nat
      BY <1>1
    <2> QED BY <2>1, WFMin
  <1>3. \A y \in T : ~(y < m)
    BY <1>1, <1>2
  <1> QED BY <1>3

\* Induction on lists, for a set of them.
LEMMA ListInduction ==
    ASSUME NEW S, NEW Good, <<>> \in Good,
           \A front \in Good, entry \in S : Append(front, entry) \in Good
    PROVE  Seq(S) \subseteq Good
  <1> DEFINE T == {n \in Nat : \E list \in Seq(S) : Len(list) = n /\ list \notin Good}
  <1> SUFFICES ASSUME NEW bad \in Seq(S), bad \notin Good PROVE FALSE
    OBVIOUS
  <1>1. Len(bad) \in T
    OBVIOUS
  <1>2. T \in SUBSET Nat
    OBVIOUS
  <1>3. PICK m \in T : \A k \in T : m <= k
    <2> HIDE DEF T
    <2> QED BY <1>1, <1>2, Least
  <1>4. PICK list \in Seq(S) : Len(list) = m /\ list \notin Good
    BY <1>3
  <1>5. list # <<>>
    BY <1>4
  <1>6. PICK front \in Seq(S), entry \in S : list = Append(front, entry)
    BY <1>5, SequenceEmptyOrAppend
  <1>7. Len(list) = Len(front) + 1 /\ Len(front) \in Nat
    BY <1>6
  <1>8. Len(front) \notin T
    <2>1. ~(m <= Len(front))
      BY <1>4, <1>7
    <2> QED BY <1>3, <2>1
  <1>9. front \in Good
    BY <1>7, <1>8
  <1> QED BY <1>4, <1>6, <1>9

-----------------------------------------------------------------------------
(* The recursion of Filtered.                                                *)

Step(f, env, names, which, i) ==
    IF i = 0 THEN <<>>
    ELSE IF (which = "named") <=> env[i].name \in names THEN Append(f[i - 1], env[i])
    ELSE f[i - 1]

Filters(f, env, names, which, n) == f = [i \in 0..n |-> Step(f, env, names, which, i)]

\* There is a function that does what the recursion says.
LEMMA FiltersExist ==
    ASSUME NEW env, NEW names, NEW which, NEW n \in Nat
    PROVE  \E f : Filters(f, env, names, which, n)
  <1> DEFINE T == {m \in Nat : ~\E f : Filters(f, env, names, which, m)}
  <1> SUFFICES ASSUME T # {} PROVE FALSE
    OBVIOUS
  <1>1. PICK m \in T : \A k \in T : m <= k
    <2>1. T \in SUBSET Nat
      OBVIOUS
    <2> HIDE DEF T
    <2> QED BY <2>1, Least
  <1>2. CASE m = 0
    <2> DEFINE g == [i \in 0..0 |-> <<>>]
    <2>1. Filters(g, env, names, which, 0)
      BY DEF Filters, Step
    <2> QED BY <2>1, <1>2
  <1>3. CASE m # 0
    <2>1. m - 1 \in Nat /\ m - 1 \notin T
      BY <1>1, <1>3
    <2>2. PICK g : Filters(g, env, names, which, m - 1)
      BY <2>1
    <2> DEFINE h == [i \in 0..m |-> IF i = m THEN Step(g, env, names, which, m) ELSE g[i]]
    <2>3. \A i \in 0..(m - 1) : g[i] = Step(g, env, names, which, i)
      BY <2>2 DEF Filters
    <2>4. \A i \in 0..m : h[i] = Step(h, env, names, which, i)
      BY <2>3, <2>1, <1>3 DEF Step
    <2>5. Filters(h, env, names, which, m)
      BY <2>4 DEF Filters
    <2> QED BY <2>5
  <1> QED BY <1>2, <1>3

LEMMA FilteredFilters ==
    ASSUME NEW env, NEW names, NEW which, Len(env) \in Nat
    PROVE  \E f : Filters(f, env, names, which, Len(env))
                  /\ Filtered(env, names, which) = f[Len(env)]
  <1> DEFINE f == CHOOSE g : Filters(g, env, names, which, Len(env))
  <1>1. Filters(f, env, names, which, Len(env))
    BY FiltersExist
  <1>2. Filtered(env, names, which) = f[Len(env)]
    BY DEF Filtered, Filters, Step
  <1> QED BY <1>1, <1>2

\* Only the entries matter: on a common prefix two such functions agree.
LEMMA FiltersAgree ==
    ASSUME NEW env, NEW list, NEW names, NEW which, NEW f, NEW g,
           NEW n, NEW m, n \in Nat, m \in Nat, n <= m,
           Filters(f, env, names, which, n), Filters(g, list, names, which, m),
           \A i \in 1..n : env[i] = list[i]
    PROVE  f[n] = g[n]
  <1> DEFINE T == {i \in 0..n : f[i] # g[i]}
  <1> SUFFICES ASSUME T # {} PROVE FALSE
    OBVIOUS
  <1>1. PICK k \in T : \A i \in T : k <= i
    <2>1. T \in SUBSET Nat
      OBVIOUS
    <2> HIDE DEF T
    <2> QED BY <2>1, Least
  <1>2. /\ \A i \in 0..n : f[i] = Step(f, env, names, which, i)
        /\ \A i \in 0..m : g[i] = Step(g, list, names, which, i)
    BY DEF Filters
  <1>3. f[k] = Step(f, env, names, which, k) /\ g[k] = Step(g, list, names, which, k)
    BY <1>2
  <1>4. CASE k = 0
    BY <1>3, <1>4 DEF Step
  <1>5. CASE k # 0
    <2>1. k - 1 \in 0..n /\ k - 1 \notin T
      BY <1>1, <1>5
    <2>2. f[k - 1] = g[k - 1] /\ env[k] = list[k]
      BY <2>1, <1>5
    <2> QED BY <1>3, <1>5, <2>2 DEF Step
  <1> QED BY <1>4, <1>5
-----------------------------------------------------------------------------
(* What Filtered makes of a list.                                            *)

LEMMA FilteredEmpty ==
    ASSUME NEW names, NEW which
    PROVE  Filtered(<<>>, names, which) = <<>>
  <1>1. PICK f : Filters(f, <<>>, names, which, 0) /\ Filtered(<<>>, names, which) = f[0]
    BY FilteredFilters
  <1>2. f[0] = Step(f, <<>>, names, which, 0)
    BY <1>1 DEF Filters
  <1> QED BY <1>1, <1>2 DEF Step

LEMMA FilteredAppend ==
    ASSUME NEW S, NEW env \in Seq(S), NEW entry \in S, NEW names, NEW which
    PROVE  Filtered(Append(env, entry), names, which)
             = IF (which = "named") <=> entry.name \in names
               THEN Append(Filtered(env, names, which), entry)
               ELSE Filtered(env, names, which)
  <1> DEFINE n == Len(env)
             longer == Append(env, entry)
  <1>1. /\ n \in Nat /\ Len(longer) = n + 1 /\ longer[n + 1] = entry
        /\ \A i \in 1..n : env[i] = longer[i]
    OBVIOUS
  <1>2. PICK f : Filters(f, env, names, which, n) /\ Filtered(env, names, which) = f[n]
    BY <1>1, FilteredFilters
  <1>3. PICK g : Filters(g, longer, names, which, n + 1)
                 /\ Filtered(longer, names, which) = g[n + 1]
    <2>1. Len(longer) \in Nat
      BY <1>1
    <2> HIDE DEF longer, n
    <2> QED BY <2>1, <1>1, FilteredFilters
  <1> HIDE DEF n, longer
  <1>4. f[n] = g[n]
    <2> DEFINE m == n + 1
    <2>1. n \in Nat /\ m \in Nat /\ n <= m
      BY <1>1
    <2>2. Filters(f, env, names, which, n) /\ Filters(g, longer, names, which, m)
      BY <1>2, <1>3
    <2>3. \A i \in 1..n : env[i] = longer[i]
      BY <1>1
    <2> HIDE DEF m
    <2> QED BY <2>1, <2>2, <2>3, FiltersAgree
  <1>5. g[n + 1] = Step(g, longer, names, which, n + 1)
    BY <1>1, <1>3 DEF Filters
  <1>6. n + 1 # 0 /\ (n + 1) - 1 = n
    BY <1>1
  <1> QED BY <1>1, <1>2, <1>3, <1>4, <1>5, <1>6 DEF Step, longer

LEMMA FilteredType ==
    ASSUME NEW S, NEW env \in Seq(S), NEW names, NEW which
    PROVE  Filtered(env, names, which) \in Seq(S)
  <1> DEFINE Good == {list \in Seq(S) : Filtered(list, names, which) \in Seq(S)}
  <1>1. <<>> \in Good
    <2>1. <<>> \in Seq(S)
      OBVIOUS
    <2>2. Filtered(<<>>, names, which) = <<>>
      BY FilteredEmpty
    <2> QED BY <2>1, <2>2
  <1>2. ASSUME NEW front \in Good, NEW entry \in S PROVE Append(front, entry) \in Good
    <2> DEFINE kept == Filtered(front, names, which)
    <2>1. kept \in Seq(S) /\ front \in Seq(S)
      BY <1>2
    <2>2. Filtered(Append(front, entry), names, which) \in {Append(kept, entry), kept}
      BY <2>1, FilteredAppend
    <2> HIDE DEF kept
    <2>3. Append(kept, entry) \in Seq(S) /\ Append(front, entry) \in Seq(S)
      BY <2>1
    <2> QED BY <2>1, <2>2, <2>3
  <1>3. Seq(S) \subseteq Good
    <2> HIDE DEF Good
    <2> QED BY <1>1, <1>2, ListInduction
  <1> QED BY <1>3

\* Leaving out what another filter leaves out, too, changes nothing for it.
LEMMA FilteredTwice ==
    ASSUME NEW S, NEW env \in Seq(S), NEW variable, NEW names, NEW which,
           ~((which = "named") <=> variable \in names)
    PROVE  Filtered(rejectEnvByName(env, variable), names, which) = Filtered(env, names, which)
  <1> DEFINE Good == {list \in Seq(S) :
                        Filtered(Filtered(list, {variable}, "others"), names, which)
                          = Filtered(list, names, which)}
  <1>1. <<>> \in Good
    BY FilteredEmpty
  <1>2. ASSUME NEW front \in Good, NEW entry \in S PROVE Append(front, entry) \in Good
    <2> DEFINE longer == Append(front, entry)
               kept == Filtered(front, {variable}, "others")
    <2>1. /\ front \in Seq(S) /\ longer \in Seq(S)
          /\ Filtered(kept, names, which) = Filtered(front, names, which)
      BY <1>2
    <2>2. kept \in Seq(S)
      BY <2>1, FilteredType
    <2> HIDE DEF kept
    <2>3. CASE entry.name = variable
      <3>1. Filtered(longer, {variable}, "others") = kept
        BY <2>1, <2>3, FilteredAppend DEF kept
      <3>2. Filtered(longer, names, which) = Filtered(front, names, which)
        BY <2>1, <2>3, FilteredAppend
      <3> QED BY <2>1, <3>1, <3>2
    <2>4. CASE entry.name # variable
      <3>1. Filtered(longer, {variable}, "others") = Append(kept, entry)
        BY <2>1, <2>4, FilteredAppend DEF kept
      <3>2. CASE (which = "named") <=> entry.name \in names
        <4>1. Filtered(Append(kept, entry), names, which)
                = Append(Filtered(kept, names, which), entry)
          BY <2>2, <3>2, FilteredAppend
        <4>2. Filtered(longer, names, which) = Append(Filtered(front, names, which), entry)
          BY <2>1, <3>2, FilteredAppend
        <4> QED BY <2>1, <3>1, <4>1, <4>2
      <3>3. CASE ~((which = "named") <=> entry.name \in names)
        <4>1. Filtered(Append(kept, entry), names, which) = Filtered(kept, names, which)
          BY <2>2, <3>3, FilteredAppend
        <4>2. Filtered(longer, names, which) = Filtered(front, names, which)
          BY <2>1, <3>3, FilteredAppend
        <4> QED BY <2>1, <3>1, <4>1, <4>2
      <3> QED BY <3>2, <3>3
    <2> QED BY <2>3, <2>4
  <1>3. Seq(S) \subseteq Good
    <2> HIDE DEF Good
    <2> QED BY <1>1, <1>2, ListInduction
  <1> QED BY <1>3 DEF rejectEnvByName

\* No variable of a name is left when they are removed.
LEMMA FilteredAway ==
    ASSUME NEW S, NEW env \in Seq(S), NEW variable
    PROVE  Named(rejectEnvByName(env, variable), variable) = <<>>
  <1> DEFINE Good == {list \in Seq(S) :
                        Filtered(Filtered(list, {variable}, "others"), {variable}, "named") = <<>>}
  <1>1. <<>> \in Good
    BY FilteredEmpty
  <1>2. ASSUME NEW front \in Good, NEW entry \in S PROVE Append(front, entry) \in Good
    <2> DEFINE longer == Append(front, entry)
               kept == Filtered(front, {variable}, "others")
    <2>1. front \in Seq(S) /\ longer \in Seq(S) /\ Filtered(kept, {variable}, "named") = <<>>
      BY <1>2
    <2>2. kept \in Seq(S)
      BY <2>1, FilteredType
    <2> HIDE DEF kept
    <2>3. CASE entry.name = variable
      <3>1. Filtered(longer, {variable}, "others") = kept
        BY <2>1, <2>3, FilteredAppend DEF kept
      <3> QED BY <2>1, <3>1
    <2>4. CASE entry.name # variable
      <3>1. Filtered(longer, {variable}, "others") = Append(kept, entry)
        BY <2>1, <2>4, FilteredAppend DEF kept
      <3>2. Filtered(Append(kept, entry), {variable}, "named") = Filtered(kept, {variable}, "named")
        BY <2>2, <2>4, FilteredAppend
      <3> QED BY <2>1, <3>1, <3>2
    <2> QED BY <2>3, <2>4
  <1>3. Seq(S) \subseteq Good
    <2> HIDE DEF Good
    <2> QED BY <1>1, <1>2, ListInduction
  <1> QED BY <1>3 DEF rejectEnvByName, Named
-----------------------------------------------------------------------------
(* Rewriting a list.                                                         *)

\* What the operator may make of env: no managed name occurs more often than
\* before, or than once, and the variables that are not managed stay.
Rewrites(env, list) ==
    /\ list \in Lists
    /\ \A variable \in Managed :
           \/ Occurrences(list, variable) <= 1
           \/ Occurrences(list, variable) <= Occurrences(env, variable)
    /\ Unmanaged(list) = Unmanaged(env)

\* The other names stay as they are.
Leaves(env, list, variable) ==
    \A other : other # variable => Named(list, other) = Named(env, other)

LEMMA ManagedNames ==
    /\ {"POD_NAMESPACE", "POD_NAME"} \subseteq Managed /\ Addresses \subseteq Managed
    /\ \A i \in 1..3 : CertFiles[i] \in Managed /\ CertFiles[i] \in Range(CertFiles)
    /\ \A variable \in {"POD_NAMESPACE", "POD_NAME"} : PodSources[variable] \in Range(PodSources)
    /\ Range(CertFiles) = {CertFiles[1], CertFiles[2], CertFiles[3]}
  <1>1. Range(CertFiles) = {CertFiles[1], CertFiles[2], CertFiles[3]}
    BY DEF CertFiles, Range
  <1>2. \A variable \in {"POD_NAMESPACE", "POD_NAME"} :
            variable \in DOMAIN PodSources /\ PodSources[variable] \in Range(PodSources)
    BY DEF PodSources, Range
  <1> QED BY <1>1, <1>2 DEF Managed

LEMMA OccurrencesType ==
    ASSUME NEW env \in Lists, NEW variable PROVE Occurrences(env, variable) \in Nat
  <1>1. Named(env, variable) \in Lists
    BY FilteredType DEF Named, Lists
  <1> QED BY <1>1 DEF Occurrences, Lists

LEMMA RewritesNothing == ASSUME NEW env \in Lists PROVE Rewrites(env, env)
  BY OccurrencesType DEF Rewrites

LEMMA RewritesOn ==
    ASSUME NEW env \in Lists, NEW list, NEW next, Rewrites(env, list), Rewrites(list, next)
    PROVE  Rewrites(env, next)
  <1>1. list \in Lists /\ next \in Lists /\ Unmanaged(next) = Unmanaged(env)
    BY DEF Rewrites
  <1>2. ASSUME NEW variable \in Managed
        PROVE  \/ Occurrences(next, variable) <= 1
               \/ Occurrences(next, variable) <= Occurrences(env, variable)
    <2>1. /\ Occurrences(env, variable) \in Nat /\ Occurrences(list, variable) \in Nat
          /\ Occurrences(next, variable) \in Nat
      BY <1>1, OccurrencesType
    <2>2. /\ \/ Occurrences(list, variable) <= 1
             \/ Occurrences(list, variable) <= Occurrences(env, variable)
          /\ \/ Occurrences(next, variable) <= 1
             \/ Occurrences(next, variable) <= Occurrences(list, variable)
      BY DEF Rewrites
    <2> QED BY <2>1, <2>2
  <1> QED BY <1>1, <1>2 DEF Rewrites

LEMMA RejectRewrites ==
    ASSUME NEW env \in Lists, NEW variable \in Managed, NEW list,
           list = rejectEnvByName(env, variable)
    PROVE  /\ Rewrites(env, list) /\ Named(list, variable) = <<>> /\ Leaves(env, list, variable)
  <1>1. list \in Lists
    BY FilteredType DEF rejectEnvByName, Lists
  <1>2. Named(list, variable) = <<>>
    BY FilteredAway DEF Lists
  <1>3. Leaves(env, list, variable)
    BY FilteredTwice DEF Leaves, Named, Lists
  <1>4. Unmanaged(list) = Unmanaged(env)
    BY FilteredTwice DEF Unmanaged, Lists
  <1>5. \A other \in Managed : \/ Occurrences(list, other) <= 1
                               \/ Occurrences(list, other) <= Occurrences(env, other)
    <2> TAKE other \in Managed
    <2>1. CASE other = variable
      BY <1>2, <2>1 DEF Occurrences
    <2>2. CASE other # variable
      <3>1. Occurrences(list, other) = Occurrences(env, other)
        BY <1>3, <2>2 DEF Leaves, Occurrences
      <3> QED BY <3>1, OccurrencesType
    <2> QED BY <2>1, <2>2
  <1> QED BY <1>1, <1>2, <1>3, <1>4, <1>5 DEF Rewrites

\* A variable is removed and put at the end.
LEMMA PlaceRewrites ==
    ASSUME NEW env \in Lists, NEW entry \in OwnEntries, NEW list,
           list = Append(rejectEnvByName(env, entry.name), entry)
    PROVE  /\ Rewrites(env, list) /\ Named(list, entry.name) = <<entry>>
           /\ Leaves(env, list, entry.name)
  <1> DEFINE kept == rejectEnvByName(env, entry.name)
  <1>1. entry.name \in Managed
    BY DEF OwnEntries
  <1>2. Rewrites(env, kept) /\ Named(kept, entry.name) = <<>> /\ Leaves(env, kept, entry.name)
    BY <1>1, RejectRewrites
  <1>3. kept \in Seq(UserEntries \cup OwnEntries) /\ entry \in UserEntries \cup OwnEntries
    BY <1>2 DEF Rewrites, Lists
  <1> HIDE DEF kept
  <1>4. list = Append(kept, entry) /\ list \in Lists
    BY <1>3 DEF kept, Lists
  <1>5. Named(list, entry.name) = <<entry>>
    <2>1. Named(list, entry.name) = Append(Named(kept, entry.name), entry)
      BY <1>3, <1>4, FilteredAppend DEF Named
    <2> QED BY <2>1, <1>2
  <1>6. \A other : other # entry.name => Named(list, other) = Named(kept, other)
    <2> TAKE other
    <2> HAVE other # entry.name
    <2>1. Filtered(Append(kept, entry), {other}, "named") = Filtered(kept, {other}, "named")
      BY <1>3, FilteredAppend
    <2> QED BY <2>1, <1>4 DEF Named
  <1>7. Leaves(env, list, entry.name)
    BY <1>2, <1>6 DEF Leaves
  <1>8. Unmanaged(list) = Unmanaged(env)
    <2>1. Unmanaged(list) = Unmanaged(kept)
      BY <1>1, <1>3, <1>4, FilteredAppend DEF Unmanaged
    <2> QED BY <2>1, <1>2 DEF Rewrites
  <1>9. \A other \in Managed : \/ Occurrences(list, other) <= 1
                               \/ Occurrences(list, other) <= Occurrences(env, other)
    <2> TAKE other \in Managed
    <2>1. CASE other = entry.name
      <3>1. Len(<<entry>>) = 1
        OBVIOUS
      <3>2. Named(list, other) = <<entry>>
        BY <1>5, <2>1
      <3>3. Occurrences(list, other) = 1
        BY <3>1, <3>2 DEF Occurrences
      <3> QED BY <3>3
    <2>2. CASE other # entry.name
      <3>1. Occurrences(list, other) = Occurrences(env, other)
        BY <1>7, <2>2 DEF Leaves, Occurrences
      <3> QED BY <3>1, OccurrencesType
    <2> QED BY <2>1, <2>2
  <1> QED BY <1>4, <1>5, <1>7, <1>8, <1>9 DEF Rewrites
-----------------------------------------------------------------------------
(* The defaults and the withdrawal.                                          *)

LEMMA SourceRewrites ==
    ASSUME NEW env \in Lists, NEW variable \in {"POD_NAMESPACE", "POD_NAME"},
           NEW list, list = SourceSet(env, variable)
    PROVE  Rewrites(env, list) /\ Leaves(env, list, variable)
  <1>1. CASE list = env
    BY <1>1, RewritesNothing DEF Leaves
  <1>2. CASE list = updateEnvSource(env, variable, PodSources[variable])
    <2> DEFINE entry == FromField(variable, PodSources[variable])
    <2>1. entry \in OwnEntries /\ entry.name = variable
      BY ManagedNames DEF FromField, OwnEntries
    <2>2. list = Append(rejectEnvByName(env, entry.name), entry)
      BY <1>2, <2>1 DEF updateEnvSource
    <2> HIDE DEF entry
    <2> QED BY <2>1, <2>2, PlaceRewrites
  <1> QED BY <1>1, <1>2 DEF SourceSet

LEMMA AddressRewrites ==
    ASSUME NEW env \in Lists, NEW variable \in Addresses, NEW svc \in Services,
           NEW list, list = AddressSet(env, variable, svc)
    PROVE  Rewrites(env, list) /\ Leaves(env, list, variable)
  <1>1. CASE list = env
    BY <1>1, RewritesNothing DEF Leaves
  <1>2. CASE list = updateEnv(env, variable, Address(variable, svc))
    <2> DEFINE entry == Literal(variable, Address(variable, svc))
    <2>1. entry \in OwnEntries /\ entry.name = variable
      BY ManagedNames DEF Literal, OwnEntries
    <2>2. list = Append(rejectEnvByName(env, entry.name), entry)
      BY <1>2, <2>1 DEF updateEnv
    <2> HIDE DEF entry
    <2> QED BY <2>1, <2>2, PlaceRewrites
  <1> QED BY <1>1, <1>2 DEF AddressSet

LEMMA FileRewrites ==
    ASSUME NEW env \in Lists, NEW variable \in Range(CertFiles),
           NEW list, list = FileSet(env, variable)
    PROVE  /\ Rewrites(env, list) /\ Leaves(env, list, variable)
           /\ Occurrences(list, variable) = 1
  <1> DEFINE entry == Literal(variable, [kind |-> "file", of |-> variable])
  <1>1. entry \in OwnEntries /\ entry.name = variable
    BY DEF Literal, OwnEntries, Managed
  <1>2. list = Append(rejectEnvByName(env, entry.name), entry)
    BY <1>1 DEF FileSet, updateEnv
  <1>3. Len(<<entry>>) = 1
    OBVIOUS
  <1> HIDE DEF entry
  <1> QED BY <1>1, <1>2, <1>3, PlaceRewrites DEF Occurrences

LEMMA WithdrawnRewrites ==
    ASSUME NEW env \in Lists, NEW variable \in Addresses,
           NEW list, list = AddressWithdrawn(env, variable)
    PROVE  Rewrites(env, list) /\ Leaves(env, list, variable)
  <1>1. CASE list = env
    BY <1>1, RewritesNothing DEF Leaves
  <1>2. CASE list = rejectEnvByName(env, variable)
    BY <1>2, RejectRewrites, ManagedNames
  <1> QED BY <1>1, <1>2 DEF AddressWithdrawn

LEMMA AddressesRewrite ==
    ASSUME NEW env \in Lists, NEW svc \in Services, NEW list, list = AddressesSet(env, svc)
    PROVE  /\ Rewrites(env, list)
           /\ \A other : other \notin Addresses => Named(list, other) = Named(env, other)
  <1> DEFINE first == AddressSet(env, "CONTROLLER_PUBLISH_SERVICE", svc)
  <1>1. Addresses = {"CONTROLLER_PUBLISH_SERVICE", "CONTROLLER_APISIX_ADMIN_URL"}
    BY DEF Addresses
  <1>2. Rewrites(env, first) /\ Leaves(env, first, "CONTROLLER_PUBLISH_SERVICE")
    BY <1>1, AddressRewrites
  <1>3. first \in Lists
    BY <1>2 DEF Rewrites
  <1>4. list = AddressSet(first, "CONTROLLER_APISIX_ADMIN_URL", svc)
    BY DEF AddressesSet
  <1> HIDE DEF first
  <1>5. Rewrites(first, list) /\ Leaves(first, list, "CONTROLLER_APISIX_ADMIN_URL")
    BY <1>1, <1>3, <1>4, AddressRewrites
  <1>6. Rewrites(env, list)
    BY <1>2, <1>5, RewritesOn
  <1> QED BY <1>1, <1>2, <1>5, <1>6 DEF Leaves

LEMMA SourcesRewrite ==
    ASSUME NEW env \in Lists, NEW list, list = PodSourcesSet(env)
    PROVE  Rewrites(env, list)
  <1> DEFINE first == SourceSet(env, "POD_NAMESPACE")
  <1>1. Rewrites(env, first)
    BY SourceRewrites
  <1>2. first \in Lists
    BY <1>1 DEF Rewrites
  <1>3. list = SourceSet(first, "POD_NAME")
    BY DEF PodSourcesSet
  <1> HIDE DEF first
  <1>4. Rewrites(first, list)
    BY <1>2, <1>3, SourceRewrites
  <1> QED BY <1>1, <1>4, RewritesOn

LEMMA SourcesLeave ==
    ASSUME NEW env \in Lists, NEW list, list = PodSourcesSet(env)
    PROVE  \A other : other \notin {"POD_NAMESPACE", "POD_NAME"} => Named(list, other) = Named(env, other)
  <1> DEFINE first == SourceSet(env, "POD_NAMESPACE")
  <1>1. first \in Lists /\ Leaves(env, first, "POD_NAMESPACE")
    BY SourceRewrites DEF Rewrites
  <1>2. list = SourceSet(first, "POD_NAME")
    BY DEF PodSourcesSet
  <1> HIDE DEF first
  <1>3. Leaves(first, list, "POD_NAME")
    BY <1>1, <1>2, SourceRewrites
  <1> QED BY <1>1, <1>3 DEF Leaves

LEMMA CountedRewrite ==
    ASSUME NEW env \in Lists, NEW svc \in Services \cup {NoService},
           NEW list, list = CountedDefaults(env, svc)
    PROVE  Rewrites(env, list)
  <1> DEFINE first == PodSourcesSet(env)
  <1>1. Rewrites(env, first)
    BY SourcesRewrite
  <1>2. first \in Lists
    BY <1>1 DEF Rewrites
  <1> HIDE DEF first
  <1>3. CASE svc = NoService
    BY <1>1, <1>3 DEF CountedDefaults, first
  <1>4. CASE svc # NoService
    <2>1. list = AddressesSet(first, svc) /\ svc \in Services
      BY <1>4 DEF CountedDefaults, first
    <2>2. Rewrites(first, list)
      BY <1>2, <2>1, AddressesRewrite
    <2> QED BY <1>1, <2>2, RewritesOn
  <1> QED BY <1>3, <1>4

LEMMA CertFilesRewrite ==
    ASSUME NEW env \in Lists, NEW list, list = CertFilesSet(env)
    PROVE  /\ Rewrites(env, list)
           /\ \A variable \in Range(CertFiles) : Occurrences(list, variable) = 1
           /\ \A other : other \notin Range(CertFiles) => Named(list, other) = Named(env, other)
  <1> DEFINE first == FileSet(env, CertFiles[1])
             second == FileSet(first, CertFiles[2])
  <1>1. /\ Rewrites(env, first) /\ Leaves(env, first, CertFiles[1])
        /\ Occurrences(first, CertFiles[1]) = 1
    BY FileRewrites, ManagedNames
  <1>2. first \in Lists
    BY <1>1 DEF Rewrites
  <1> HIDE DEF first
  <1>3. /\ Rewrites(first, second) /\ Leaves(first, second, CertFiles[2])
        /\ Occurrences(second, CertFiles[2]) = 1
    BY <1>2, FileRewrites, ManagedNames
  <1>4. second \in Lists
    BY <1>3 DEF Rewrites
  <1>5. list = FileSet(second, CertFiles[3])
    BY DEF CertFilesSet, first
  <1> HIDE DEF second
  <1>6. /\ Rewrites(second, list) /\ Leaves(second, list, CertFiles[3])
        /\ Occurrences(list, CertFiles[3]) = 1
    BY <1>4, <1>5, FileRewrites, ManagedNames
  <1>7. Rewrites(env, list)
    BY <1>1, <1>2, <1>3, <1>4, <1>6, RewritesOn
  <1>8. CertFiles[1] # CertFiles[2] /\ CertFiles[1] # CertFiles[3] /\ CertFiles[2] # CertFiles[3]
    BY DEF CertFiles
  <1>9. Occurrences(list, CertFiles[1]) = 1 /\ Occurrences(list, CertFiles[2]) = 1
    BY <1>1, <1>3, <1>6, <1>8 DEF Leaves, Occurrences
  <1>10. \A other : other \notin Range(CertFiles) => Named(list, other) = Named(env, other)
    BY <1>1, <1>3, <1>6, ManagedNames DEF Leaves
  <1> QED BY <1>6, <1>7, <1>9, <1>10, ManagedNames

LEMMA DefaultsRewrite ==
    ASSUME NEW env \in Lists, NEW svc \in Services \cup {NoService},
           NEW list, list = setControlPlaneDefaults(env, svc)
    PROVE  /\ Rewrites(env, list)
           /\ \A variable \in Range(CertFiles) : Occurrences(list, variable) = 1
  <1> DEFINE counted == CountedDefaults(env, svc)
  <1>1. Rewrites(env, counted)
    BY CountedRewrite
  <1>2. counted \in Lists
    BY <1>1 DEF Rewrites
  <1>3. list = CertFilesSet(counted)
    BY DEF setControlPlaneDefaults
  <1> HIDE DEF counted
  <1>4. /\ Rewrites(counted, list)
        /\ \A variable \in Range(CertFiles) : Occurrences(list, variable) = 1
    BY <1>2, <1>3, CertFilesRewrite
  <1> QED BY <1>1, <1>2, <1>4, RewritesOn

LEMMA ChangeRewrites ==
    ASSUME NEW env \in Lists, NEW svc \in Services \cup {NoService},
           NEW list, list = setControlPlaneEnvOnDataPlaneChange(env, svc)
    PROVE  /\ Rewrites(env, list)
           /\ \A other : other \notin Addresses => Named(list, other) = Named(env, other)
  <1>1. CASE svc # NoService
    BY <1>1, AddressesRewrite DEF setControlPlaneEnvOnDataPlaneChange
  <1>2. CASE svc = NoService
    <2> DEFINE first == AddressWithdrawn(env, "CONTROLLER_PUBLISH_SERVICE")
    <2>1. Addresses = {"CONTROLLER_PUBLISH_SERVICE", "CONTROLLER_APISIX_ADMIN_URL"}
      BY DEF Addresses
    <2>2. Rewrites(env, first) /\ Leaves(env, first, "CONTROLLER_PUBLISH_SERVICE")
      BY <2>1, WithdrawnRewrites
    <2>3. first \in Lists
      BY <2>2 DEF Rewrites
    <2>4. list = AddressWithdrawn(first, "CONTROLLER_APISIX_ADMIN_URL")
      BY <1>2 DEF setControlPlaneEnvOnDataPlaneChange
    <2> HIDE DEF first
    <2>5. Rewrites(first, list) /\ Leaves(first, list, "CONTROLLER_APISIX_ADMIN_URL")
      BY <2>1, <2>3, <2>4, WithdrawnRewrites
    <2>6. Rewrites(env, list)
      BY <2>2, <2>3, <2>5, RewritesOn
    <2> QED BY <2>1, <2>2, <2>5, <2>6 DEF Leaves
  <1> QED BY <1>1, <1>2
-----------------------------------------------------------------------------
(* The passes.                                                               *)

\* A copy whose version is the stored one is the stored list, until the pass
\* has come to the Deployment.
CopyIsCurrent == fresh /\ pc = "defaults" => mem = spec

EnvInv == TypeOK /\ CopyIsCurrent /\ Rewrites(written, spec)

LEMMA InitEnv == Init => EnvInv
  <1> SUFFICES ASSUME Init PROVE EnvInv
    OBVIOUS
  <1>1. PICK list \in UserLists : spec = list /\ written = list
    BY DEF Init
  <1>2. list \in Lists /\ <<>> \in Lists
    BY ListsAssumption DEF Lists
  <1>3. Rewrites(written, spec)
    BY <1>1, <1>2, RewritesNothing
  <1>4. edits \in 0..MaxEdits
    BY EditsAssumption DEF Init
  <1> QED BY <1>1, <1>2, <1>3, <1>4 DEF Init, EnvInv, TypeOK, CopyIsCurrent

\* A pass that ends has nothing in its hands.
LEMMA ReturnTypes ==
    ASSUME Return
    PROVE  /\ mem' \in Lists /\ name' \in Services \cup {NoService}
           /\ pc' = "idle" /\ fresh' = FALSE
  BY DEF Return, Lists

\* What a pass stores: a rewriting of the stored list, or nothing.
LEMMA UpdateRewrites ==
    ASSUME EnvInv, pc = "defaults", NEW list, Rewrites(mem, list), Update(list), UNCHANGED written
    PROVE  spec' \in Lists /\ Rewrites(written', spec')
  <1>1. CASE fresh
    <2>1. mem = spec /\ spec' = list
      BY <1>1 DEF EnvInv, CopyIsCurrent, Update
    <2>2. written \in Lists /\ Rewrites(written, mem)
      BY <2>1 DEF EnvInv, TypeOK
    <2>3. Rewrites(written, list)
      BY <2>2, RewritesOn
    <2> QED BY <2>1, <2>3 DEF Rewrites
  <1>2. CASE ~fresh
    BY <1>2 DEF EnvInv, TypeOK, Update
  <1> QED BY <1>1, <1>2

LEMMA EditTypes ==
    ASSUME TypeOK, CountEdit PROVE edits' \in 0..MaxEdits
  BY EditsAssumption DEF TypeOK, CountEdit

LEMMA StepEnv == EnvInv /\ [Next]_vars => EnvInv'
  <1> SUFFICES ASSUME EnvInv, [Next]_vars PROVE EnvInv'
    OBVIOUS
  <1> USE DEF EnvInv
  <1>1. CASE Start
    <2>1. TypeOK' /\ CopyIsCurrent'
      BY <1>1 DEF Start, TypeOK, CopyIsCurrent
    <2>2. Rewrites(written, spec)'
      BY <1>1 DEF Start, Rewrites, Occurrences
    <2> QED BY <2>1, <2>2
  <1>2. CASE SetDefaults
    <2> DEFINE list == setControlPlaneDefaults(mem, name)
    <2>1. Rewrites(mem, list)
      BY DefaultsRewrite DEF TypeOK
    <2>2. /\ pc = "defaults" /\ Update(list) /\ Return
          /\ UNCHANGED <<written, service, deployed, edits>>
      BY <1>2 DEF SetDefaults
    <2> HIDE DEF list
    <2>3. spec' \in Lists /\ Rewrites(written', spec')
      BY <2>1, <2>2, UpdateRewrites
    <2>4. TypeOK'
      BY <2>2, <2>3, ReturnTypes DEF TypeOK
    <2>5. CopyIsCurrent'
      BY <2>2, ReturnTypes DEF CopyIsCurrent
    <2> QED BY <2>3, <2>4, <2>5
  <1>3. CASE Configure
    <2> DEFINE before == setControlPlaneDefaults(mem, name)
               after == setControlPlaneEnvOnDataPlaneChange(before, name)
    <2>1. /\ Rewrites(mem, before) /\ mem \in Lists /\ name \in Services \cup {NoService}
          /\ \A variable \in Range(CertFiles) : Occurrences(before, variable) = 1
      BY DefaultsRewrite DEF TypeOK
    <2>2. before \in Lists
      BY <2>1 DEF Rewrites
    <2>3. /\ pc = "defaults" /\ UNCHANGED <<written, service, deployed, edits>>
          /\ IF after = before
             THEN mem' = before /\ pc' = "deploy" /\ UNCHANGED <<spec, name, fresh>>
             ELSE /\ Update(after)
                  /\ IF fresh THEN mem' = after /\ pc' = "deploy" /\ UNCHANGED <<name, fresh>>
                     ELSE Return
      BY <1>3 DEF Configure
    <2> HIDE DEF before
    <2>4. /\ Rewrites(before, after)
          /\ \A other : other \notin Addresses => Named(after, other) = Named(before, other)
      BY <2>1, <2>2, ChangeRewrites
    <2> HIDE DEF after
    <2>5. after \in Lists /\ Rewrites(mem, after)
      BY <2>1, <2>4, RewritesOn DEF Rewrites
    <2>6. \A variable \in Range(CertFiles) : Occurrences(after, variable) = 1
      <3>1. \A variable \in Range(CertFiles) : variable \notin Addresses
        BY ManagedNames DEF CertFiles, Addresses
      <3> QED BY <2>1, <2>4, <3>1 DEF Occurrences
    <2>7. spec' \in Lists /\ Rewrites(written', spec')
      <3>1. CASE after = before
        BY <2>3, <3>1 DEF TypeOK
      <3>2. CASE after # before
        BY <2>3, <2>5, <3>2, UpdateRewrites
      <3> QED BY <3>1, <3>2
    <2>8. TypeOK' /\ CopyIsCurrent'
      <3>1. CASE pc' = "deploy" /\ mem' \in {before, after} /\ UNCHANGED <<name, fresh>>
        <4>1. \A variable \in Range(CertFiles) : Len(Named(mem', variable)) = 1
          BY <2>1, <2>6, <3>1 DEF Occurrences
        <4>2. mem' \in Lists
          BY <2>2, <2>5, <3>1
        <4> QED BY <2>3, <2>7, <3>1, <4>1, <4>2 DEF TypeOK, CopyIsCurrent
      <3>2. CASE Return
        BY <2>3, <2>7, <3>2, ReturnTypes DEF TypeOK, CopyIsCurrent
      <3> QED BY <2>3, <3>1, <3>2
    <2> QED BY <2>7, <2>8
  <1>4. CASE Deploy
    <2>1. Return /\ deployed' = mem /\ UNCHANGED <<spec, written, service, edits>>
      BY <1>4 DEF Deploy
    <2>2. TypeOK' /\ CopyIsCurrent'
      BY <2>1, ReturnTypes DEF TypeOK, CopyIsCurrent
    <2>3. Rewrites(written, spec)'
      BY <2>1 DEF Rewrites, Occurrences
    <2> QED BY <2>2, <2>3
  <1>5. CASE UserWrites
    <2>1. PICK list \in UserLists : spec' = list /\ written' = list
      BY <1>5 DEF UserWrites
    <2>2. list \in Lists
      BY ListsAssumption DEF Lists
    <2>3. Rewrites(written', spec')
      BY <2>1, <2>2, RewritesNothing
    <2>4. TypeOK' /\ CopyIsCurrent'
      BY <1>5, <2>1, <2>2, EditTypes DEF UserWrites, TypeOK, CopyIsCurrent
    <2> QED BY <2>3, <2>4
  <1>6. CASE ServiceChanges
    <2>1. /\ UNCHANGED <<spec, written, deployed, pc, mem, name>> /\ CountEdit
          /\ service' \in Services \cup {NoService} /\ (fresh' = FALSE \/ fresh' = fresh)
      BY <1>6 DEF ServiceChanges
    <2>2. TypeOK' /\ CopyIsCurrent'
      <3>1. fresh' \in BOOLEAN /\ edits' \in 0..MaxEdits
        BY <2>1, EditTypes DEF TypeOK
      <3>2. CopyIsCurrent'
        BY <2>1 DEF CopyIsCurrent
      <3> QED BY <2>1, <3>1, <3>2 DEF TypeOK
    <2>3. Rewrites(written, spec)'
      BY <2>1 DEF Rewrites, Occurrences
    <2> QED BY <2>2, <2>3
  <1>7. CASE AdminEditsDeployment
    <2>1. /\ UNCHANGED <<spec, written, service, pc, mem, name, fresh>> /\ CountEdit
          /\ deployed' \in UserLists
      BY <1>7 DEF AdminEditsDeployment, pass
    <2>2. deployed' \in Lists
      BY <2>1, ListsAssumption DEF Lists
    <2>3. TypeOK' /\ CopyIsCurrent'
      BY <2>1, <2>2, EditTypes DEF TypeOK, CopyIsCurrent
    <2>4. Rewrites(written, spec)'
      BY <2>1 DEF Rewrites, Occurrences
    <2> QED BY <2>3, <2>4
  <1>8. CASE UNCHANGED vars
    BY <1>8 DEF vars, pass, TypeOK, CopyIsCurrent, Rewrites, Occurrences
  <1> QED BY <1>1, <1>2, <1>3, <1>4, <1>5, <1>6, <1>7, <1>8 DEF Next, Pass

LEMMA EnvInvariance == Spec => []EnvInv
  BY InitEnv, StepEnv, PTL DEF Spec

\* Every variable keeps its type: whatever lists users write, the passes make
\* lists of their variables and of the operator's, and come to the Deployment
\* with each of the client certificate's files once.
THEOREM EnvTypes == Spec => []TypeOK
  <1>1. EnvInv => TypeOK
    BY DEF EnvInv
  <1> QED BY <1>1, EnvInvariance, PTL

\* No round of defaults and withdrawals makes a second variable of a name that
\* updateEnv and updateEnvSource set, for lists of any length.
THEOREM CountsKept == Spec => []NoNewDuplicates
  <1>1. EnvInv => NoNewDuplicates
    <2> SUFFICES ASSUME EnvInv, NEW variable \in Managed
                 PROVE  Occurrences(spec, variable)
                          <= IF Occurrences(written, variable) = 0 THEN 1
                             ELSE Occurrences(written, variable)
      BY DEF NoNewDuplicates
    <2>1. Occurrences(spec, variable) \in Nat /\ Occurrences(written, variable) \in Nat
      BY OccurrencesType DEF EnvInv, TypeOK
    <2>2. \/ Occurrences(spec, variable) <= 1
          \/ Occurrences(spec, variable) <= Occurrences(written, variable)
      BY DEF EnvInv, Rewrites
    <2> QED BY <2>1, <2>2
  <1> QED BY <1>1, EnvInvariance, PTL

\* The variables that are the user's own keep their values and their order in
\* the stored list, whatever copies the passes rewrite.
THEOREM OwnVariablesKept == Spec => []OthersKept
  <1>1. EnvInv => OthersKept
    BY DEF EnvInv, Rewrites, OthersKept
  <1> QED BY <1>1, EnvInvariance, PTL
-----------------------------------------------------------------------------
(* Coming to rest.                                                           *)

LEMMA SourceNames == DOMAIN PodSources = {"POD_NAMESPACE", "POD_NAME"}
  BY DEF PodSources

\* What the code reads of a name is in the list of its variables.
LEMMA SameReads ==
    ASSUME NEW env, NEW list, NEW variable, Named(list, variable) = Named(env, variable)
    PROVE  /\ envValueByName(list, variable) = envValueByName(env, variable)
           /\ envVarSourceByName(list, variable) = envVarSourceByName(env, variable)
  BY DEF envValueByName, envVarSourceByName, Has

LEMMA PlacedReads ==
    ASSUME NEW env, NEW variable, NEW entry, Named(env, variable) = <<entry>>
    PROVE  /\ envValueByName(env, variable) = entry.value
           /\ envVarSourceByName(env, variable) = entry.from
  <1>1. <<entry>> # <<>> /\ Head(<<entry>>) = entry
    OBVIOUS
  <1> QED BY <1>1 DEF envValueByName, envVarSourceByName, Has

\* Nothing is written where everything is right.
LEMMA NothingToSet ==
    ASSUME NEW env, NEW svc, SourcesRight(env), svc # NoService => AddressesRight(env, svc)
    PROVE  CountedDefaults(env, svc) = env
  <1>1. PodSourcesSet(env) = env
    BY SourceNames DEF SourcesRight, PodSourcesSet, SourceSet
  <1>2. svc # NoService => AddressesSet(env, svc) = env
    BY DEF AddressesRight, AddressesSet, AddressSet, Addresses
  <1> QED BY <1>1, <1>2 DEF CountedDefaults

LEMMA NothingToChange ==
    ASSUME NEW env, NEW svc, AddressesRight(env, svc)
    PROVE  setControlPlaneEnvOnDataPlaneChange(env, svc) = env
  <1>1. CASE svc # NoService
    BY <1>1 DEF AddressesRight, AddressesSet, AddressSet, Addresses,
                setControlPlaneEnvOnDataPlaneChange
  <1>2. CASE svc = NoService
    BY <1>2 DEF AddressesRight, AddressWithdrawn, Addresses,
                setControlPlaneEnvOnDataPlaneChange
  <1> QED BY <1>1, <1>2

LEMMA SourceIsSet ==
    ASSUME NEW env \in Lists, NEW variable \in {"POD_NAMESPACE", "POD_NAME"},
           NEW list, list = SourceSet(env, variable)
    PROVE  envVarSourceByName(list, variable) = PodSources[variable]
  <1>1. CASE envVarSourceByName(env, variable) = PodSources[variable]
    BY <1>1 DEF SourceSet
  <1>2. CASE envVarSourceByName(env, variable) # PodSources[variable]
    <2> DEFINE entry == FromField(variable, PodSources[variable])
    <2>1. entry \in OwnEntries /\ entry.name = variable /\ entry.from = PodSources[variable]
      BY ManagedNames DEF FromField, OwnEntries
    <2>2. list = Append(rejectEnvByName(env, entry.name), entry)
      BY <1>2, <2>1 DEF SourceSet, updateEnvSource
    <2> HIDE DEF entry
    <2>3. Named(list, variable) = <<entry>>
      BY <2>1, <2>2, PlaceRewrites
    <2> QED BY <2>1, <2>3, PlacedReads
  <1> QED BY <1>1, <1>2

LEMMA AddressIsSet ==
    ASSUME NEW env \in Lists, NEW variable \in Addresses, NEW svc \in Services,
           NEW list, list = AddressSet(env, variable, svc)
    PROVE  envValueByName(list, variable) = Address(variable, svc)
  <1>1. CASE envValueByName(env, variable) = Address(variable, svc)
    BY <1>1 DEF AddressSet
  <1>2. CASE envValueByName(env, variable) # Address(variable, svc)
    <2> DEFINE entry == Literal(variable, Address(variable, svc))
    <2>1. entry \in OwnEntries /\ entry.name = variable /\ entry.value = Address(variable, svc)
      BY ManagedNames DEF Literal, OwnEntries
    <2>2. list = Append(rejectEnvByName(env, entry.name), entry)
      BY <1>2, <2>1 DEF AddressSet, updateEnv
    <2> HIDE DEF entry
    <2>3. Named(list, variable) = <<entry>>
      BY <2>1, <2>2, PlaceRewrites
    <2> QED BY <2>1, <2>3, PlacedReads
  <1> QED BY <1>1, <1>2

LEMMA AddressIsWithdrawn ==
    ASSUME NEW env \in Lists, NEW variable \in Addresses,
           NEW list, list = AddressWithdrawn(env, variable)
    PROVE  envValueByName(list, variable) = NoValue
  <1>1. CASE envValueByName(env, variable) = NoValue
    BY <1>1 DEF AddressWithdrawn
  <1>2. CASE envValueByName(env, variable) # NoValue
    <2>1. Named(list, variable) = <<>>
      BY <1>2, RejectRewrites, ManagedNames DEF AddressWithdrawn
    <2> QED BY <2>1 DEF envValueByName, Has
  <1> QED BY <1>1, <1>2

LEMMA SourcesAreSet ==
    ASSUME NEW env \in Lists, NEW list, list = PodSourcesSet(env)
    PROVE  SourcesRight(list)
  <1> DEFINE first == SourceSet(env, "POD_NAMESPACE")
  <1>1. first \in Lists
    BY SourceRewrites DEF Rewrites
  <1>2. envVarSourceByName(first, "POD_NAMESPACE") = PodSources["POD_NAMESPACE"]
    BY SourceIsSet
  <1>3. list = SourceSet(first, "POD_NAME")
    BY DEF PodSourcesSet
  <1> HIDE DEF first
  <1>4. envVarSourceByName(list, "POD_NAME") = PodSources["POD_NAME"]
    BY <1>1, <1>3, SourceIsSet
  <1>5. Named(list, "POD_NAMESPACE") = Named(first, "POD_NAMESPACE")
    BY <1>1, <1>3, SourceRewrites DEF Leaves
  <1> QED BY <1>2, <1>4, <1>5, SameReads, SourceNames DEF SourcesRight

LEMMA AddressesAreSet ==
    ASSUME NEW env \in Lists, NEW svc \in Services, NEW list, list = AddressesSet(env, svc)
    PROVE  AddressesRight(list, svc)
  <1> DEFINE first == AddressSet(env, "CONTROLLER_PUBLISH_SERVICE", svc)
  <1>1. Addresses = {"CONTROLLER_PUBLISH_SERVICE", "CONTROLLER_APISIX_ADMIN_URL"}
    BY DEF Addresses
  <1>2. first \in Lists
    BY <1>1, AddressRewrites DEF Rewrites
  <1>3. envValueByName(first, "CONTROLLER_PUBLISH_SERVICE")
          = Address("CONTROLLER_PUBLISH_SERVICE", svc)
    BY <1>1, AddressIsSet
  <1>4. list = AddressSet(first, "CONTROLLER_APISIX_ADMIN_URL", svc)
    BY DEF AddressesSet
  <1> HIDE DEF first
  <1>5. envValueByName(list, "CONTROLLER_APISIX_ADMIN_URL")
          = Address("CONTROLLER_APISIX_ADMIN_URL", svc)
    BY <1>1, <1>2, <1>4, AddressIsSet
  <1>6. Named(list, "CONTROLLER_PUBLISH_SERVICE") = Named(first, "CONTROLLER_PUBLISH_SERVICE")
    BY <1>1, <1>2, <1>4, AddressRewrites DEF Leaves
  <1>7. svc # NoService
    BY ServicesAssumption
  <1> QED BY <1>1, <1>3, <1>5, <1>6, <1>7, SameReads DEF AddressesRight

LEMMA AddressesAreWithdrawn ==
    ASSUME NEW env \in Lists, NEW list,
           list = setControlPlaneEnvOnDataPlaneChange(env, NoService)
    PROVE  AddressesRight(list, NoService)
  <1> DEFINE first == AddressWithdrawn(env, "CONTROLLER_PUBLISH_SERVICE")
  <1>1. Addresses = {"CONTROLLER_PUBLISH_SERVICE", "CONTROLLER_APISIX_ADMIN_URL"}
    BY DEF Addresses
  <1>2. first \in Lists
    BY <1>1, WithdrawnRewrites DEF Rewrites
  <1>3. envValueByName(first, "CONTROLLER_PUBLISH_SERVICE") = NoValue
    BY <1>1, AddressIsWithdrawn
  <1>4. list = AddressWithdrawn(first, "CONTROLLER_APISIX_ADMIN_URL")
    BY DEF setControlPlaneEnvOnDataPlaneChange
  <1> HIDE DEF first
  <1>5. envValueByName(list, "CONTROLLER_APISIX_ADMIN_URL") = NoValue
    BY <1>1, <1>2, <1>4, AddressIsWithdrawn
  <1>6. Named(list, "CONTROLLER_PUBLISH_SERVICE") = Named(first, "CONTROLLER_PUBLISH_SERVICE")
    BY <1>1, <1>2, <1>4, WithdrawnRewrites DEF Leaves
  <1> QED BY <1>1, <1>3, <1>5, <1>6, SameReads DEF AddressesRight

\* The defaults that count: right sources, and addresses if there is a Service.
LEMMA CountedAreSet ==
    ASSUME NEW env \in Lists, NEW svc \in Services \cup {NoService},
           NEW list, list = CountedDefaults(env, svc)
    PROVE  SourcesRight(list) /\ (svc # NoService => AddressesRight(list, svc))
  <1> DEFINE sources == PodSourcesSet(env)
  <1>1. sources \in Lists /\ SourcesRight(sources)
    BY SourcesRewrite, SourcesAreSet DEF Rewrites
  <1>2. list = IF svc = NoService THEN sources ELSE AddressesSet(sources, svc)
    BY DEF CountedDefaults
  <1> HIDE DEF sources
  <1>3. CASE svc = NoService
    BY <1>1, <1>2, <1>3
  <1>4. CASE svc # NoService
    <2>1. \A variable \in {"POD_NAMESPACE", "POD_NAME"} :
              Named(list, variable) = Named(sources, variable)
      BY <1>1, <1>2, <1>4, AddressesRewrite DEF Addresses
    <2>2. SourcesRight(list)
      BY <1>1, <2>1, SameReads, SourceNames DEF SourcesRight
    <2> QED BY <1>1, <1>2, <1>4, <2>2, AddressesAreSet
  <1> QED BY <1>3, <1>4

\* The certificate's files are all that setControlPlaneDefaults adds to them.
LEMMA OnlyFilesAdded ==
    ASSUME NEW env \in Lists, NEW list, list = CertFilesSet(env)
    PROVE  \A variable \in DOMAIN PodSources \cup Addresses :
               Named(list, variable) = Named(env, variable)
  <1>1. \A variable \in DOMAIN PodSources \cup Addresses : variable \notin Range(CertFiles)
    BY ManagedNames, SourceNames DEF CertFiles, Addresses
  <1> QED BY <1>1, CertFilesRewrite

\* What the defaults make of a list has the right sources, and addresses if
\* there is a Service; the certificate's files do not get in the way.
LEMMA DefaultsAreSet ==
    ASSUME NEW env \in Lists, NEW svc \in Services \cup {NoService},
           NEW list, list = setControlPlaneDefaults(env, svc)
    PROVE  SourcesRight(list) /\ (svc # NoService => AddressesRight(list, svc))
  <1> DEFINE counted == CountedDefaults(env, svc)
  <1>1. /\ counted \in Lists /\ SourcesRight(counted)
        /\ svc # NoService => AddressesRight(counted, svc)
    BY CountedRewrite, CountedAreSet DEF Rewrites
  <1>2. list = CertFilesSet(counted)
    BY DEF setControlPlaneDefaults
  <1> HIDE DEF counted
  <1>3. \A variable \in DOMAIN PodSources \cup Addresses :
            Named(list, variable) = Named(counted, variable)
    BY <1>1, <1>2, OnlyFilesAdded
  <1>4. SourcesRight(list)
    BY <1>1, <1>3, SameReads DEF SourcesRight
  <1>5. svc # NoService => AddressesRight(list, svc)
    BY <1>1, <1>3, SameReads DEF AddressesRight
  <1> QED BY <1>4, <1>5

\* While the Service stays the same, a pass leaves alone what a pass has
\* stored.  The defaults that were stored do not count as changed in the next
\* pass; and after the withdrawal neither of the two has anything to do.
THEOREM PassesComeToRest ==
    ASSUME NEW env \in Lists, NEW svc \in Services \cup {NoService}
    PROVE  LET before == setControlPlaneDefaults(env, svc)
               after == setControlPlaneEnvOnDataPlaneChange(before, svc)
               again == setControlPlaneDefaults(after, svc)
           IN  /\ ~DefaultsChanged(before, svc)
               /\ ~DefaultsChanged(after, svc)
               /\ setControlPlaneEnvOnDataPlaneChange(again, svc) = again
  <1> DEFINE before == setControlPlaneDefaults(env, svc)
             after == setControlPlaneEnvOnDataPlaneChange(before, svc)
             again == setControlPlaneDefaults(after, svc)
  <1>1. /\ before \in Lists /\ SourcesRight(before)
        /\ svc # NoService => AddressesRight(before, svc)
    BY DefaultsRewrite, DefaultsAreSet DEF Rewrites
  <1> HIDE DEF before
  <1>2. /\ after \in Lists
        /\ \A variable \in {"POD_NAMESPACE", "POD_NAME"} :
               Named(after, variable) = Named(before, variable)
    BY <1>1, ChangeRewrites DEF Rewrites, Addresses
  <1>3. AddressesRight(after, svc)
    BY <1>1, NothingToChange, AddressesAreWithdrawn
  <1> HIDE DEF after
  <1>4. SourcesRight(after)
    BY <1>1, <1>2, SameReads, SourceNames DEF SourcesRight
  <1>5. CountedDefaults(before, svc) = before /\ CountedDefaults(after, svc) = after
    BY <1>1, <1>3, <1>4, NothingToSet
  <1>6. again = CertFilesSet(after)
    BY <1>5 DEF setControlPlaneDefaults
  <1> HIDE DEF again
  <1>7. \A variable \in Addresses : Named(again, variable) = Named(after, variable)
    BY <1>2, <1>6, OnlyFilesAdded
  <1>8. AddressesRight(again, svc)
    BY <1>3, <1>7, SameReads DEF AddressesRight
  <1>9. setControlPlaneEnvOnDataPlaneChange(again, svc) = again
    BY <1>8, NothingToChange
  <1> QED BY <1>5, <1>9 DEF DefaultsChanged, before, after, again
-----------------------------------------------------------------------------
(* The addresses that are deployed.                                          *)

\* What a pass has when it comes to the Deployment.
PassAddresses == pc = "deploy" => AddressesRight(mem, name)

LEMMA ChangeIsSet ==
    ASSUME NEW env \in Lists, NEW svc \in Services \cup {NoService},
           NEW list, list = setControlPlaneEnvOnDataPlaneChange(env, svc)
    PROVE  AddressesRight(list, svc)
  <1>1. CASE svc # NoService
    BY <1>1, AddressesAreSet DEF setControlPlaneEnvOnDataPlaneChange
  <1>2. CASE svc = NoService
    BY <1>2, AddressesAreWithdrawn
  <1> QED BY <1>1, <1>2

LEMMA StepAddresses == TypeOK /\ PassAddresses /\ [Next]_vars => PassAddresses'
  <1> SUFFICES ASSUME TypeOK, PassAddresses, [Next]_vars PROVE PassAddresses'
    OBVIOUS
  <1>1. CASE Start \/ SetDefaults \/ Deploy
    BY <1>1 DEF Start, SetDefaults, Deploy, Return, PassAddresses
  <1>2. CASE Configure
    <2> DEFINE before == setControlPlaneDefaults(mem, name)
               after == setControlPlaneEnvOnDataPlaneChange(before, name)
    <2>1. before \in Lists /\ name \in Services \cup {NoService}
      BY DefaultsRewrite DEF TypeOK, Rewrites
    <2> HIDE DEF before
    <2>2. AddressesRight(after, name)
      BY <2>1, ChangeIsSet
    <2> HIDE DEF after
    <2>3. pc' = "deploy" => mem' = after /\ name' = name
      BY <1>2 DEF Configure, Return, before, after
    <2> QED BY <2>2, <2>3 DEF PassAddresses, AddressesRight
  <1>3. CASE UserWrites \/ ServiceChanges \/ AdminEditsDeployment \/ UNCHANGED vars
    <2>1. UNCHANGED <<pc, mem, name>>
      BY <1>3 DEF UserWrites, ServiceChanges, AdminEditsDeployment, vars, pass
    <2> QED BY <2>1 DEF PassAddresses, AddressesRight
  <1> QED BY <1>1, <1>2, <1>3 DEF Next, Pass

\* A name that is there once is looked at where it is used.
LEMMA OnceIsUsed ==
    ASSUME NEW env \in Lists, NEW variable, Occurrences(env, variable) <= 1
    PROVE  Used(env, variable) = envValueByName(env, variable)
  <1> DEFINE named == Named(env, variable)
  <1>1. named \in Seq(UserEntries \cup OwnEntries)
    BY FilteredType DEF Named, Lists
  <1>2. Len(named) <= 1
    BY DEF Occurrences
  <1> HIDE DEF named
  <1>3. Len(named) \in Nat
    BY <1>1
  <1>4. Len(named) = 0 \/ Len(named) = 1
    BY <1>2, <1>3
  <1>5. named # <<>> => Last(named) = Head(named)
    BY <1>1, <1>4 DEF Last
  <1> QED BY <1>5 DEF named, Used, Effective, envValueByName, Has

\* What the kubelet reads in the container is what the pass looked up, for user
\* lists of any length and whatever the passes before have left.
THEOREM AddressesDeployed == Spec => []DeploysAddresses
  <1>1. Init => PassAddresses
    BY DEF Init, PassAddresses
  <1>2. TypeOK /\ PassAddresses => DeploysAddresses
    BY OnceIsUsed DEF TypeOK, PassAddresses, AddressesRight, DeploysAddresses
  <1> QED BY <1>1, <1>2, StepAddresses, EnvTypes, PTL DEF Spec
-----------------------------------------------------------------------------
(* Records of lists.                                                         *)

\* The addresses of two Services, and of none, are told apart.
LEMMA PublishedIs ==
    ASSUME NEW env, NEW svc \in Services \cup {NoService}
    PROVE  Published(env) = svc <=> AddressesRight(env, svc)
  <1>1. ASSUME NEW other \in Services \cup {NoService},
               AddressesRight(env, svc), AddressesRight(env, other)
        PROVE  other = svc
    <2> DEFINE v == "CONTROLLER_PUBLISH_SERVICE"
               of(one) == IF one = NoService THEN NoValue ELSE Address(v, one)
    <2>1. of(svc) = of(other)
      BY <1>1 DEF AddressesRight, Addresses
    <2>2. NoValue.kind = "empty" /\ \A one : Address(v, one).kind = v /\ Address(v, one).of = one
      BY DEF NoValue, Address
    <2> QED BY <2>1, <2>2
  <1>2. svc # Foreign
    BY ServicesAssumption
  <1> QED BY <1>1, <1>2 DEF Published

LEMMA RecordType == ASSUME NEW env PROVE Record(env) \in E!Records
  BY DEF Record, Published, SourcesRight, FilesRight, E!Records

LEMMA SamePublished ==
    ASSUME NEW env, NEW list,
           \A variable \in Addresses : Named(list, variable) = Named(env, variable)
    PROVE  Published(list) = Published(env)
  <1>1. \A svc \in Services \cup {NoService} : AddressesRight(list, svc) <=> AddressesRight(env, svc)
    BY SameReads DEF AddressesRight
  <1>2. CASE \E svc \in Services \cup {NoService} : AddressesRight(env, svc)
    BY <1>1, <1>2, PublishedIs
  <1>3. CASE ~\E svc \in Services \cup {NoService} : AddressesRight(env, svc)
    BY <1>1, <1>3 DEF Published
  <1> QED BY <1>2, <1>3

LEMMA FileIsSet ==
    ASSUME NEW env \in Lists, NEW variable \in Range(CertFiles),
           NEW list, list = FileSet(env, variable)
    PROVE  envValueByName(list, variable) = [kind |-> "file", of |-> variable]
  <1> DEFINE entry == Literal(variable, [kind |-> "file", of |-> variable])
  <1>1. /\ entry \in OwnEntries /\ entry.name = variable
        /\ entry.value = [kind |-> "file", of |-> variable]
    BY DEF Literal, OwnEntries, Managed
  <1>2. list = Append(rejectEnvByName(env, entry.name), entry)
    BY <1>1 DEF FileSet, updateEnv
  <1> HIDE DEF entry
  <1>3. Named(list, variable) = <<entry>>
    BY <1>1, <1>2, PlaceRewrites
  <1> QED BY <1>1, <1>3, PlacedReads

LEMMA FilesAreSet ==
    ASSUME NEW env \in Lists, NEW list, list = CertFilesSet(env)
    PROVE  FilesRight(list)
  <1> DEFINE first == FileSet(env, CertFiles[1])
             second == FileSet(first, CertFiles[2])
             Right(one, i) == envValueByName(one, CertFiles[i]) = [kind |-> "file", of |-> CertFiles[i]]
  <1>1. first \in Lists /\ Right(first, 1)
    BY FileRewrites, FileIsSet, ManagedNames DEF Rewrites
  <1> HIDE DEF first
  <1>2. second \in Lists /\ Leaves(first, second, CertFiles[2]) /\ Right(second, 2)
    BY <1>1, FileRewrites, FileIsSet, ManagedNames DEF Rewrites
  <1>3. list = FileSet(second, CertFiles[3])
    BY DEF CertFilesSet, first
  <1> HIDE DEF second
  <1>4. Leaves(second, list, CertFiles[3]) /\ Right(list, 3)
    BY <1>2, <1>3, FileRewrites, FileIsSet, ManagedNames
  <1>5. CertFiles[1] # CertFiles[2] /\ CertFiles[1] # CertFiles[3] /\ CertFiles[2] # CertFiles[3]
    BY DEF CertFiles
  <1>6. Right(list, 2)
    BY <1>2, <1>4, <1>5, SameReads DEF Leaves
  <1>7. Right(list, 1)
    BY <1>1, <1>2, <1>4, <1>5, SameReads DEF Leaves
  <1> QED BY <1>4, <1>6, <1>7, ManagedNames DEF FilesRight

\* The defaults complete the record; without a Service its address stays.
LEMMA DefaultsRecord ==
    ASSUME NEW env \in Lists, NEW svc \in Services \cup {NoService},
           NEW list, list = setControlPlaneDefaults(env, svc)
    PROVE  Record(list) = E!Complete(IF svc = NoService THEN Published(env) ELSE svc)
  <1> DEFINE counted == CountedDefaults(env, svc)
  <1>1. list = CertFilesSet(counted) /\ counted \in Lists
    BY CountedRewrite DEF setControlPlaneDefaults, Rewrites
  <1>2. SourcesRight(list) /\ (svc # NoService => AddressesRight(list, svc))
    BY DefaultsAreSet
  <1>3. FilesRight(list)
    BY <1>1, FilesAreSet
  <1>4. ASSUME svc = NoService PROVE Published(list) = Published(env)
    <2>1. counted = PodSourcesSet(env)
      BY <1>4 DEF CountedDefaults
    <2> HIDE DEF counted
    <2>2. \A variable \in Addresses : Named(counted, variable) = Named(env, variable)
      BY <2>1, SourcesLeave DEF Addresses
    <2>3. \A variable \in Addresses : Named(list, variable) = Named(counted, variable)
      BY <1>1, OnlyFilesAdded
    <2> QED BY <2>2, <2>3, SamePublished
  <1>5. Published(list) = IF svc = NoService THEN Published(env) ELSE svc
    BY <1>2, <1>4, PublishedIs
  <1> QED BY <1>2, <1>3, <1>5 DEF Record, E!Complete

\* A list is seen to need defaults when its record does.
LEMMA DefaultsSeen ==
    ASSUME NEW env \in Lists, NEW svc \in Services \cup {NoService}
    PROVE  DefaultsChanged(env, svc)
             <=> ~SourcesRight(env) \/ (svc # NoService /\ Published(env) # svc)
  <1>1. CountedDefaults(env, svc) = env => SourcesRight(env) /\ (svc # NoService => AddressesRight(env, svc))
    BY CountedAreSet
  <1> QED BY <1>1, NothingToSet, PublishedIs DEF DefaultsChanged

\* What a pass has when it comes to the Deployment is complete.
PassRecord == pc = "deploy" => Record(mem) = E!Complete(name)

LEMMA ConfiguredRecord ==
    ASSUME NEW env \in Lists, NEW svc \in Services \cup {NoService}, NEW before, NEW after,
           before = setControlPlaneDefaults(env, svc),
           after = setControlPlaneEnvOnDataPlaneChange(before, svc)
    PROVE  Record(after) = E!Complete(svc)
  <1>1. before \in Lists /\ SourcesRight(before) /\ FilesRight(before)
    <2>1. before = CertFilesSet(CountedDefaults(env, svc)) /\ CountedDefaults(env, svc) \in Lists
      BY CountedRewrite DEF setControlPlaneDefaults, Rewrites
    <2> QED BY <2>1, FilesAreSet, DefaultsRewrite, DefaultsAreSet DEF Rewrites
  <1>2. AddressesRight(after, svc)
    BY <1>1, ChangeIsSet
  <1>3. \A other : other \notin Addresses => Named(after, other) = Named(before, other)
    BY <1>1, ChangeRewrites
  <1>4. \A other \in DOMAIN PodSources \cup Range(CertFiles) : other \notin Addresses
    BY ManagedNames, SourceNames DEF CertFiles, Addresses
  <1>5. SourcesRight(after) /\ FilesRight(after)
    BY <1>1, <1>3, <1>4, SameReads DEF SourcesRight, FilesRight
  <1> QED BY <1>2, <1>5, PublishedIs DEF Record, E!Complete

LEMMA StepRecord == TypeOK /\ PassRecord /\ [Next]_vars => PassRecord'
  <1> SUFFICES ASSUME TypeOK, PassRecord, [Next]_vars PROVE PassRecord'
    OBVIOUS
  <1>1. CASE Start \/ SetDefaults \/ Deploy
    BY <1>1 DEF Start, SetDefaults, Deploy, Return, PassRecord
  <1>2. CASE Configure
    <2> DEFINE before == setControlPlaneDefaults(mem, name)
               after == setControlPlaneEnvOnDataPlaneChange(before, name)
    <2>1. Record(after) = E!Complete(name)
      BY ConfiguredRecord DEF TypeOK
    <2> HIDE DEF before, after
    <2>2. pc' = "deploy" => mem' = after /\ name' = name
      BY <1>2 DEF Configure, Return, before, after
    <2> QED BY <2>1, <2>2 DEF PassRecord, Record, SourcesRight, FilesRight, Published,
                              AddressesRight, E!Complete
  <1>3. CASE UserWrites \/ ServiceChanges \/ AdminEditsDeployment \/ UNCHANGED vars
    <2>1. UNCHANGED <<pc, mem, name>>
      BY <1>3 DEF UserWrites, ServiceChanges, AdminEditsDeployment, vars, pass
    <2> QED BY <2>1 DEF PassRecord, Record, SourcesRight, FilesRight, Published,
                        AddressesRight, E!Complete
  <1> QED BY <1>1, <1>2, <1>3 DEF Next, Pass

LEMMA InitEnvironment == Init => E!Init
  <1> SUFFICES ASSUME Init PROVE E!Init
    OBVIOUS
  <1>1. Record(spec) \in E!Records /\ deployed = <<>> /\ edits = 0
    BY RecordType DEF Init
  <1> QED BY <1>1 DEF E!Init

\* A list is what its record says, also when it has been written.
LEMMA RecordOfNext ==
    /\ Record(spec)' = Record(spec') /\ Record(deployed)' = Record(deployed')
    /\ spec' = spec => Record(spec)' = Record(spec)
    /\ deployed' = deployed => Record(deployed)' = Record(deployed)
  BY DEF Record, SourcesRight, FilesRight, Published, AddressesRight

LEMMA SetDefaultsStep ==
    ASSUME EnvInv, SetDefaults, fresh PROVE E!SetDefaults
  <1>1. /\ mem = spec /\ spec \in Lists /\ name \in Services \cup {NoService}
        /\ DefaultsChanged(spec, name) /\ spec' = setControlPlaneDefaults(spec, name)
        /\ UNCHANGED <<deployed, edits>>
    BY DEF EnvInv, CopyIsCurrent, TypeOK, SetDefaults, Update
  <1> DEFINE env == Record(spec)
             publish == IF name = NoService THEN env.publish ELSE name
  <1>2. env.publish = Published(spec) /\ env.pod = SourcesRight(spec)
    BY DEF Record
  <1>3. Record(spec)' = E!Complete(publish)
    BY <1>1, <1>2, DefaultsRecord, RecordOfNext
  <1>4. ~env.pod \/ env.publish # publish
    BY <1>1, <1>2, DefaultsSeen
  <1> HIDE DEF env
  <1>5. {Record(spec)}' = {E!Complete(publish)} /\ env \in {Record(spec)}
    BY <1>3 DEF env
  <1> QED BY <1>1, <1>4, <1>5, RecordOfNext DEF E!SetDefaults

LEMMA ConfigureStep ==
    ASSUME EnvInv, Configure, fresh PROVE E!Withdraw \/ UNCHANGED E!vars
  <1> DEFINE before == setControlPlaneDefaults(spec, name)
             after == setControlPlaneEnvOnDataPlaneChange(before, name)
  <1>1. /\ mem = spec /\ spec \in Lists /\ name \in Services \cup {NoService}
        /\ ~DefaultsChanged(spec, name) /\ UNCHANGED <<deployed, edits>>
        /\ spec' = IF after = before THEN spec ELSE after
    BY DEF EnvInv, CopyIsCurrent, TypeOK, Configure, Update
  <1>2. CASE after = before
    BY <1>1, <1>2, RecordOfNext DEF E!vars
  <1>3. CASE after # before
    <2>1. before \in Lists /\ (name # NoService => AddressesRight(before, name))
      BY <1>1, DefaultsRewrite, DefaultsAreSet DEF Rewrites
    <2>2. name = NoService /\ ~AddressesRight(before, NoService)
      BY <1>3, <2>1, NothingToChange
    <2>3. SourcesRight(spec) /\ Published(spec) # NoService
      <3>1. SourcesRight(spec)
        BY <1>1, DefaultsSeen
      <3>2. Published(before) = Published(spec)
        <4>1. before = CertFilesSet(spec)
          BY <1>1 DEF DefaultsChanged, setControlPlaneDefaults
        <4> HIDE DEF before
        <4> QED BY <1>1, <4>1, OnlyFilesAdded, SamePublished
      <3> QED BY <2>2, <3>1, <3>2, PublishedIs
    <2>4. Record(spec)' = E!Complete(NoService)
      BY <1>1, <1>3, <2>2, ConfiguredRecord, RecordOfNext
    <2>5. Record(spec).pod /\ Record(spec).publish # NoService
      BY <2>3 DEF Record
    <2> QED BY <1>1, <2>4, <2>5, RecordOfNext DEF E!Withdraw
  <1> QED BY <1>2, <1>3

\* A copy that is not current writes nothing.
LEMMA StaleStep ==
    ASSUME SetDefaults \/ Configure, ~fresh PROVE UNCHANGED E!vars
  <1>1. UNCHANGED <<spec, deployed, edits>>
    BY DEF SetDefaults, Configure, Update
  <1> QED BY <1>1, RecordOfNext DEF E!vars

LEMMA StepEnvironment ==
    EnvInv /\ PassRecord /\ [Next]_vars => [E!Next]_(E!vars)
  <1> SUFFICES ASSUME EnvInv, PassRecord, [Next]_vars PROVE E!Next \/ UNCHANGED E!vars
    OBVIOUS
  <1>1. CASE Start \/ UNCHANGED vars
    <2>1. UNCHANGED <<spec, deployed, edits>>
      BY <1>1 DEF Start, vars
    <2> QED BY <2>1, RecordOfNext DEF E!vars
  <1>2. CASE SetDefaults
    BY <1>2, SetDefaultsStep, StaleStep DEF E!Next
  <1>3. CASE Configure
    BY <1>3, ConfigureStep, StaleStep DEF E!Next
  <1>4. CASE Deploy
    <2>1. /\ Record(mem) = E!Complete(name) /\ deployed' = mem /\ UNCHANGED <<spec, edits>>
          /\ name \in Services \cup {NoService}
      BY <1>4 DEF Deploy, PassRecord, EnvInv, TypeOK
    <2>2. Record(deployed)' = E!Complete(name) /\ Record(spec)' = Record(spec)
      BY <2>1, RecordOfNext
    <2>3. E!Deploy
      BY <2>1, <2>2 DEF E!Deploy
    <2> QED BY <2>3 DEF E!Next
  <1>5. CASE UserWrites \/ ServiceChanges \/ AdminEditsDeployment
    <2>1. edits' = edits + 1
      BY <1>5 DEF UserWrites, ServiceChanges, AdminEditsDeployment, CountEdit
    <2>2. /\ Record(spec)' \in E!Records /\ Record(deployed)' \in E!Records
          /\ Record(spec) \in E!Records
      BY RecordType, RecordOfNext
    <2>3. E!Edit
      BY <2>1, <2>2 DEF E!Edit
    <2> QED BY <2>3 DEF E!Next
  <1> QED BY <1>1, <1>2, <1>3, <1>4, <1>5 DEF Next, Pass

\* The list implements the abstract environment: what users and administrators see
\* of any list, through doubles, foreign addresses, copies that have become old and
\* refused writes, are writes of whole defaults, a withdrawal, and deployments that
\* lack nothing.  ControlPlane implements the same environment with its records.
THEOREM ListsImplementEnvironment == Spec => ImplementsEnvironment
  <1>1. Init => PassRecord
    BY DEF Init, PassRecord
  <1>2. EnvInv => TypeOK
    BY DEF EnvInv
  <1>3. Spec => E!Spec
    BY <1>1, <1>2, InitEnvironment, StepRecord, StepEnvironment, EnvInvariance, PTL DEF Spec, E!Spec
  <1> QED BY <1>3 DEF ImplementsEnvironment
=============================================================================
