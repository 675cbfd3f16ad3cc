--------------------- MODULE DataPlaneValidationProofs ---------------------
(* Theorems about DataPlaneValidation for every value of its constants.       *)
EXTENDS DataPlaneValidation, TLAPS

-----------------------------------------------------------------------------
(* What the parts of a review read.                                          *)

\* The kinds of entries are told apart.
LEMMA EntryKinds ==
    ASSUME NEW entry \in EnvEntries
    PROVE  /\ entry.kind = "value" => entry.value \in Modes
           /\ entry.kind = "field" => entry.value \in FieldValues
           /\ entry.kind \notin {"value", "field"} => entry \in References
           /\ entry.kind \in ObjectKinds => entry.kind \in {"configMap", "secret"}
  BY KindsAssumption DEF EnvEntries, References

\* The code's reading of a reference in env, and what the container gets.
LEMMA KeyRefMode ==
    ASSUME NEW entry, entry.kind \in ObjectKinds, NEW content \in Contents,
           NEW m, m = ValueFromKeyRef(entry, content)
    PROVE  /\ m \in Modes \cup Contents \cup Decodings
           /\ m \in {Unset, "", "off"} /\ content # Unset
                /\ (entry.kind = "secret" => Decoded(content, TRUE) \notin {Unset, "", "off"})
                => DBLess(content)
           /\ m \notin {"", "off"} /\ content # ""
                /\ (entry.kind = "secret" => content # "off") => ~DBLess(content)
  <1> USE ValuesAssumption
  <1>1. CASE content \in {Unset, ""}
    BY <1>1 DEF ValueFromKeyRef, DBLess, Decodings
  <1>2. CASE content \notin {Unset, ""} /\ entry.kind = "secret"
    <2>1. m = Decoded(content, TRUE)
      BY <1>2 DEF ValueFromKeyRef
    <2>2. Decoded(content, TRUE) \in Decodings
      BY <1>2, DecodersAssumption DEF Decoded
    <2> QED BY <1>2, <2>1, <2>2 DEF Decodings, DBLess
  <1>3. CASE content \notin {Unset, ""} /\ entry.kind # "secret"
    <2>1. m = content
      BY <1>3 DEF ValueFromKeyRef
    <2> QED BY <1>3, <2>1 DEF DBLess
  <1> QED BY <1>1, <1>2, <1>3

\* The same of a reference in envFrom.
LEMMA RefMode ==
    ASSUME NEW entry, entry.kind \in ObjectKinds, NEW content \in Contents,
           NEW m, m = ValueFromRef(entry, content)
    PROVE  /\ m \in Modes \cup Contents \cup Decodings
           /\ m \in {Unset, "", "off"} /\ content # Unset
                /\ (entry.kind = "secret" => Decoded(content, FALSE) \notin {Unset, "", "off"})
                => DBLess(content)
           /\ m \notin {Unset, "", "off"} /\ (entry.kind = "secret" => content # "off")
                => content # Unset /\ ~DBLess(content)
  <1> USE ValuesAssumption
  <1>1. CASE content = Unset
    BY <1>1 DEF ValueFromRef, Decodings
  <1>2. CASE content # Unset /\ entry.kind = "secret"
    <2>1. m = Decoded(content, FALSE)
      BY <1>2 DEF ValueFromRef
    <2>2. /\ Decoded(content, FALSE) \in Decodings
          /\ content = "" => Decoded(content, FALSE) = ""
      BY <1>2, DecodersAssumption DEF Decoded
    <2> QED BY <1>2, <2>1, <2>2 DEF Decodings, DBLess
  <1>3. CASE content # Unset /\ entry.kind # "secret"
    <2>1. m = content
      BY <1>3 DEF ValueFromRef
    <2> QED BY <1>3, <2>1 DEF DBLess
  <1> QED BY <1>1, <1>2, <1>3

-----------------------------------------------------------------------------
(* Which entry decides.                                                      *)

\* The last entry of all decides, if it sets the variable.
LEMMA LastDecides ==
    ASSUME NEW S, NEW all \in Seq(S), Len(all) > 0, Setting(all[Len(all)]) # Unset
    PROVE  LET setting == {i \in DOMAIN all : Setting(all[i]) # Unset}
           IN  /\ setting # {}
               /\ (CHOOSE i \in setting : \A j \in setting : j <= i) = Len(all)
  <1> DEFINE setting == {i \in DOMAIN all : Setting(all[i]) # Unset}
  <1>1. Len(all) \in setting /\ \A j \in setting : j \in Nat /\ j <= Len(all)
    OBVIOUS
  <1>2. \A i \in setting : (\A j \in setting : j <= i) <=> i = Len(all)
    BY <1>1
  <1> HIDE DEF setting
  <1>3. (CHOOSE i \in setting : \A j \in setting : j <= i) = Len(all)
    BY <1>1, <1>2
  <1> QED BY <1>1, <1>3 DEF setting

LEMMA LastOfBoth ==
    ASSUME NEW S, NEW s \in Seq(S), NEW t \in Seq(S), t # <<>>
    PROVE  s \o t \in Seq(S) /\ Len(s \o t) > 0 /\ (s \o t)[Len(s \o t)] = t[Len(t)]
  <1>1. Len(t) \in Nat /\ Len(t) > 0 /\ Len(s) \in Nat
    OBVIOUS
  <1>2. s \o t \in Seq(S) /\ Len(s \o t) = Len(s) + Len(t)
    OBVIOUS
  <1>3. \A i \in 1..(Len(s) + Len(t)) : (s \o t)[i] = IF i <= Len(s) THEN s[i] ELSE t[i - Len(s)]
    OBVIOUS
  <1> QED BY <1>1, <1>2, <1>3

LEMMA EnvDecides ==
    ASSUME TypeOK, request.env # <<>>, LastSetting(request.env) # Unset
    PROVE  Effective = LastSetting(request.env)
  <1> DEFINE all == request.envFrom \o request.env
  <1>1. request.env \in Seq(EnvEntries) /\ request.envFrom \in Seq(EnvEntries)
    BY DEF TypeOK, EnvEntries
  <1>2. all \in Seq(EnvEntries) /\ Len(all) > 0 /\ all[Len(all)] = request.env[Len(request.env)]
    BY <1>1, LastOfBoth
  <1> HIDE DEF all
  <1>3. Setting(all[Len(all)]) = LastSetting(request.env)
    BY <1>2 DEF LastSetting
  <1> QED BY <1>2, <1>3, LastDecides DEF Effective, all

LEMMA EnvFromDecides ==
    ASSUME TypeOK, request.env = <<>>, request.envFrom # <<>>,
           LastSetting(request.envFrom) # Unset
    PROVE  Effective = LastSetting(request.envFrom)
  <1> DEFINE all == request.envFrom \o request.env
  <1>1. request.env \in Seq(EnvEntries) /\ request.envFrom \in Seq(References)
    BY DEF TypeOK
  <1>2. all = request.envFrom
    BY <1>1
  <1>3. all \in Seq(References) /\ Len(all) > 0
    BY <1>1, <1>2
  <1> QED BY <1>2, <1>3, LastDecides DEF Effective, LastSetting

LEMMA NothingDecides ==
    ASSUME request.env = <<>>, request.envFrom = <<>>
    PROVE  Effective = ""
  BY DEF Effective

-----------------------------------------------------------------------------
(* Types.                                                                    *)

LEMMA ListsType ==
    ASSUME NEW S, NEW list \in Lists(S)
    PROVE  list \in Seq(S) /\ Len(list) <= MaxEntries
  <1>1. PICK n \in 0..MaxEntries : list \in [1..n -> S]
    BY DEF Lists
  <1>2. n \in Nat /\ n <= MaxEntries
    BY BoundsAssumption
  <1> QED BY <1>1, <1>2

\* The first entry of what is left, and the rest.
LEMMA HeadTail ==
    ASSUME TypeOK, todo # <<>>
    PROVE  /\ Head(todo) \in EnvEntries /\ Head(todo) = todo[1]
           /\ Tail(todo) \in Seq(EnvEntries) /\ Len(Tail(todo)) = Len(todo) - 1
           /\ \A i \in 1..Len(Tail(todo)) : Tail(todo)[i] = todo[i + 1]
  BY DEF TypeOK

LEMMA TailTypes ==
    ASSUME TypeOK, todo # <<>>, todo' = Tail(todo)
    PROVE  todo' \in Seq(EnvEntries) /\ Len(todo') <= MaxEntries
  <1>1. Len(todo) \in Nat /\ Len(todo) <= MaxEntries /\ MaxEntries \in Nat
    BY BoundsAssumption DEF TypeOK
  <1> QED BY <1>1, HeadTail

\* A literal that is read is one of the modes.
LEMMA LiteralRead ==
    ASSUME TypeOK, ReadValue
    PROVE  Head(todo).value \in Modes /\ Setting(Head(todo)) = Head(todo).value
  <1>1. Head(todo) \in EnvEntries /\ Head(todo).kind = "value"
    BY HeadTail DEF ReadValue, InLoop
  <1> QED BY <1>1, EntryKinds DEF Setting

\* A reference that is read names an object of a kind there is, with its content.
LEMMA ReferenceRead ==
    ASSUME TypeOK, ReadReference
    PROVE  /\ Head(todo).kind \in ObjectKinds \cap {"configMap", "secret"}
           /\ objects[Head(todo).object] \in Contents
           /\ Setting(Head(todo)) = objects[Head(todo).object]
  <1>1. todo # <<>> /\ Head(todo).kind \in ObjectKinds /\ objects[Head(todo).object] # Missing
    BY DEF ReadReference, IsReference, InLoop
  <1>2. Head(todo) \in References /\ Head(todo).kind \in {"configMap", "secret"}
    BY <1>1, HeadTail, EntryKinds
  <1>3. Head(todo).object \in ObjectNames
    BY <1>2 DEF References
  <1>4. objects[Head(todo).object] \in Contents
    BY <1>1, <1>3 DEF TypeOK
  <1>5. Setting(Head(todo)) = objects[Head(todo).object]
    BY <1>2 DEF Setting
  <1> QED BY <1>1, <1>2, <1>4, <1>5

\* The mode a reference leads to, beside the content it sets.
LEMMA ReferenceMode ==
    ASSUME TypeOK, ReadReference
    PROVE  /\ mode' \in Modes \cup Contents \cup Decodings
           /\ pc = "env" /\ mode' \in {Unset, "", "off"} /\ Setting(Head(todo)) # Unset
                /\ ~Hides(Head(todo), TRUE)
                => DBLess(Setting(Head(todo)))
           /\ pc = "envFrom" /\ mode' \in {Unset, "", "off"} /\ Setting(Head(todo)) # Unset
                /\ ~Hides(Head(todo), FALSE)
                => DBLess(Setting(Head(todo)))
           /\ pc = "env" /\ mode' \notin {"", "off"} /\ Setting(Head(todo)) # ""
                /\ (Head(todo).kind = "secret" => Setting(Head(todo)) # "off")
                => ~DBLess(Setting(Head(todo)))
           /\ pc = "envFrom" /\ mode' \notin {Unset, "", "off"}
                /\ (Head(todo).kind = "secret" => Setting(Head(todo)) # "off")
                => Setting(Head(todo)) # Unset /\ ~DBLess(Setting(Head(todo)))
  <1> DEFINE entry == Head(todo)
             content == objects[entry.object]
  <1>1. entry.kind \in ObjectKinds /\ content \in Contents /\ Setting(entry) = content
    BY ReferenceRead
  <1>2. /\ pc = "env" => mode' = ValueFromKeyRef(entry, content)
        /\ pc # "env" => mode' = ValueFromRef(entry, content)
    BY DEF ReadReference
  <1> HIDE DEF entry, content
  <1>3. CASE pc = "env"
    BY <1>1, <1>2, <1>3, KeyRefMode DEF entry, Hides
  <1>4. CASE pc # "env"
    BY <1>1, <1>2, <1>4, RefMode DEF entry, Hides
  <1> QED BY <1>3, <1>4

LEMMA NoModeType == Unset \in Decodings
  BY DEF Decodings

LEMMA InitTypes == Init => TypeOK
  <1> SUFFICES ASSUME Init PROVE TypeOK
    OBVIOUS
  <1>1. <<>> \in Seq(EnvEntries) /\ <<>> \in Seq(References) /\ Len(<<>>) <= MaxEntries
    BY BoundsAssumption
  <1>2. /\ request \in [resource : {"none", "dataplanes", "controlplanes"},
                        operation : {"none", "CREATE", "UPDATE", "DELETE"},
                        env : Seq(EnvEntries), envFrom : Seq(References)]
        /\ Len(request.envFrom) <= MaxEntries
    BY <1>1 DEF Init, NoRequest
  <1>3. changes \in 0..MaxChanges /\ faults \in 0..MaxFaults
    BY BoundsAssumption DEF Init
  <1> QED BY <1>1, <1>2, <1>3, NoModeType DEF Init, TypeOK

LEMMA AnswerTypes ==
    ASSUME NEW v \in {"allowed", "refused"}, Answer(v)
    PROVE  /\ verdict' \in {"none", "allowed", "refused"} /\ mode' \in Modes \cup Contents \cup Decodings
           /\ pc' \in {"idle", "handle", "env", "envFrom", "decide", "done"}
           /\ todo' \in Seq(EnvEntries) /\ Len(todo') <= MaxEntries
  BY BoundsAssumption, NoModeType DEF Answer

LEMMA StepTypes == TypeOK /\ [Next]_vars => TypeOK'
  <1> SUFFICES ASSUME TypeOK, [Next]_vars PROVE TypeOK'
    OBVIOUS
  <1> USE DEF TypeOK
  <1>1. CASE Review
    <2>1. PICK resource \in {"dataplanes", "controlplanes"},
               operation \in {"CREATE", "UPDATE", "DELETE"},
               env \in Lists(EnvEntries), envFrom \in Lists(References) :
             /\ request' = [resource |-> resource, operation |-> operation,
                            env |-> env, envFrom |-> envFrom]
             /\ todo' = env
      BY <1>1 DEF Review
    <2>2. /\ env \in Seq(EnvEntries) /\ Len(env) <= MaxEntries
          /\ envFrom \in Seq(References) /\ Len(envFrom) <= MaxEntries
      BY ListsType
    <2> QED BY <1>1, <2>1, <2>2, NoModeType DEF Review
  <1>2. CASE AcceptUnread
    BY <1>2, AnswerTypes DEF AcceptUnread
  <1>3. CASE BeginValidation
    BY <1>3 DEF BeginValidation
  <1>4. CASE ReadValue
    <2>1. Head(todo).value \in Modes
      BY <1>4, LiteralRead
    <2>2. mode' \in Modes \cup Contents \cup Decodings
      BY <1>4, <2>1 DEF ReadValue
    <2>3. todo' \in Seq(EnvEntries) /\ Len(todo') <= MaxEntries
      BY <1>4, TailTypes DEF ReadValue, InLoop
    <2> QED BY <1>4, <2>2, <2>3 DEF ReadValue
  <1>5. CASE ReadReference
    <2>1. todo' \in Seq(EnvEntries) /\ Len(todo') <= MaxEntries
      BY <1>5, TailTypes DEF ReadReference, IsReference, InLoop
    <2>2. mode' \in Modes \cup Contents \cup Decodings
      BY <1>5, ReferenceMode
    <2>3. UNCHANGED <<objects, request, pc, verdict, calm, changes, faults>>
      BY <1>5 DEF ReadReference
    <2> QED BY <2>1, <2>2, <2>3
  <1>6. CASE GetFails
    <2>1. faults' \in 0..MaxFaults
      BY <1>6, BoundsAssumption DEF GetFails
    <2> QED BY <1>6, <2>1, AnswerTypes DEF GetFails
  <1>7. CASE EnvDone
    <2>1. request.envFrom \in Seq(EnvEntries)
      BY DEF EnvEntries
    <2> QED BY <1>7, <2>1 DEF EnvDone
  <1>8. CASE EnvFromDone
    BY <1>8 DEF EnvFromDone
  <1>9. CASE Decide
    BY <1>9, AnswerTypes DEF Decide
  <1>10. CASE ObjectChanges
    <2>1. changes' \in 0..MaxChanges
      BY <1>10, BoundsAssumption DEF ObjectChanges
    <2> QED BY <1>10, <2>1 DEF ObjectChanges, review
  <1>11. CASE UNCHANGED vars
    BY <1>11 DEF vars, review
  <1>12. CASE ReadField
    <2>1. todo' \in Seq(EnvEntries) /\ Len(todo') <= MaxEntries
      BY <1>12, TailTypes DEF ReadField, InLoop
    <2> QED BY <1>12, <2>1 DEF ReadField
  <1> QED BY <1>1, <1>2, <1>3, <1>4, <1>5, <1>6, <1>7, <1>8, <1>9, <1>10, <1>11, <1>12
          DEF Next, Validation

\* Every variable keeps its type: no review leaves its lists or its modes.
THEOREM TypeCorrect == Spec => []TypeOK
  BY InitTypes, StepTypes, PTL DEF Spec
-----------------------------------------------------------------------------
(* How far the loops have come.                                              *)

\* While objects and request stay, so does what the container gets.
LEMMA SameReview ==
    ASSUME UNCHANGED <<objects, request>>
    PROVE  /\ Effective' = Effective /\ Starts' = Starts /\ Plain' = Plain
           /\ Visible' = Visible /\ Applicable' = Applicable
           /\ LastSetting(request.env)' = LastSetting(request.env)
           /\ LastSetting(request.envFrom)' = LastSetting(request.envFrom)
  <1>1. \A entry : Setting(entry)' = Setting(entry)
    BY DEF Setting
  <1>2. Effective' = Effective
    BY DEF Effective, Setting
  <1>3. Starts' = Starts
    BY <1>1 DEF Starts
  <1>4. Plain' = Plain
    BY <1>1 DEF Plain
  <1>5. Visible' = Visible
    BY <1>1 DEF Visible, Hides, LastSetting, Decoded, DBLess
  <1> QED BY <1>1, <1>2, <1>3, <1>4, <1>5 DEF Applicable, LastSetting

\* One more entry is read: it is the one that the loop now has read last.
LEMMA ReadOn ==
    ASSUME TypeOK, NEW S, NEW list \in Seq(S), Reading(list), todo # <<>>, todo' = Tail(todo),
           UNCHANGED <<objects, request>>
    PROVE  /\ Len(list) - Len(todo') \in DOMAIN list
           /\ Head(todo) = list[Len(list) - Len(todo')]
           /\ Len(todo') < Len(list)
           /\ \A i \in 1..Len(todo') : todo'[i] = list[Len(list) - Len(todo') + i]
  <1> DEFINE n == Len(todo)
             k == Len(list)
  <1>1. n \in Nat /\ n > 0 /\ k \in Nat /\ n <= k
    BY DEF TypeOK, Reading
  <1>2. Len(todo') = n - 1 /\ \A i \in 1..(n - 1) : todo'[i] = todo[i + 1]
    BY HeadTail
  <1>3. Head(todo) = todo[1]
    BY HeadTail
  <1>4. \A i \in 1..n : todo[i] = list[k - n + i]
    BY DEF Reading
  <1>5. DOMAIN list = 1..k
    OBVIOUS
  <1> HIDE DEF n, k
  <1>6. todo[1] = list[k - n + 1]
    BY <1>1, <1>4
  <1>7. k - (n - 1) = k - n + 1 /\ k - n + 1 \in 1..k
    BY <1>1
  <1>8. \A i \in 1..(n - 1) : todo[i + 1] = list[k - (n - 1) + i]
    <2> TAKE i \in 1..(n - 1)
    <2>1. i + 1 \in 1..n /\ k - n + (i + 1) = k - (n - 1) + i
      BY <1>1
    <2> QED BY <2>1, <1>4
  <1>9. Len(todo') = n - 1 /\ n - 1 < k
    BY <1>1, <1>2
  <1>10. k - Len(todo') \in DOMAIN list /\ Head(todo) = list[k - Len(todo')]
    BY <1>3, <1>5, <1>6, <1>7, <1>9
  <1>11. \A i \in 1..Len(todo') : todo'[i] = list[k - Len(todo') + i]
    BY <1>2, <1>8, <1>9
  <1> QED BY <1>9, <1>10, <1>11 DEF k

\* A loop at its end has begun if there was anything to read.
LEMMA ReadAll ==
    ASSUME NEW S, NEW list \in Seq(S), todo = <<>>
    PROVE  Begun(list) <=> list # <<>>
  <1>1. Len(todo) = 0 /\ Len(list) \in Nat /\ (Len(list) = 0 <=> list = <<>>)
    OBVIOUS
  <1> QED BY <1>1 DEF Begun

\* The container starts only with what the last entry of env sets.
LEMMA LastStarts ==
    ASSUME TypeOK, request.env # <<>>, Starts
    PROVE  LastSetting(request.env) # Unset
  <1>1. request.env \in Seq(EnvEntries)
    BY DEF TypeOK
  <1>2. Len(request.env) \in DOMAIN request.env
    BY <1>1
  <1> QED BY <1>2 DEF Starts, LastSetting

\* envFrom has references only, and so has what its loop has left.
LEMMA EnvFromReads ==
    ASSUME TypeOK, Loops, pc = "envFrom", todo # <<>>
    PROVE  Head(todo).kind \in ObjectKinds
  <1>1. request.envFrom \in Seq(References) /\ todo \in Seq(EnvEntries)
    BY DEF TypeOK
  <1>2. Reading(request.envFrom)
    BY DEF Loops
  <1>3. /\ Len(todo) \in Nat /\ Len(todo) > 0 /\ Head(todo) = todo[1]
        /\ Len(request.envFrom) \in Nat /\ DOMAIN request.envFrom = 1..Len(request.envFrom)
    BY <1>1
  <1>4. Head(todo) = request.envFrom[Len(request.envFrom) - Len(todo) + 1]
    BY <1>2, <1>3 DEF Reading
  <1>5. Len(request.envFrom) - Len(todo) + 1 \in DOMAIN request.envFrom
    BY <1>2, <1>3 DEF Reading
  <1>6. Head(todo) \in References
    BY <1>1, <1>4, <1>5
  <1> QED BY <1>6 DEF References

LEMMA AllLeft ==
    ASSUME NEW S, NEW list \in Seq(S), todo = list
    PROVE  Reading(list) /\ ~Begun(list)
  <1>1. Len(list) \in Nat /\ Len(list) - Len(list) = 0
    OBVIOUS
  <1>2. \A i \in 1..Len(list) : Len(list) - Len(list) + i = i
    BY <1>1
  <1> QED BY <1>1, <1>2 DEF Reading, Begun
-----------------------------------------------------------------------------
(* The loops do what Loops says.                                             *)

LEMMA InitReview == Init => ReviewInv
  BY ValuesAssumption DEF Init, NoRequest, ReviewInv, Loops, Supported, Unsupported, Applicable

LEMMA EndOfList ==
    ASSUME NEW S, NEW list \in Seq(S), NEW left, left = <<>>
    PROVE  Len(list) - Len(left) = Len(list)
  <1>1. Len(left) = 0 /\ Len(list) \in Nat
    OBVIOUS
  <1> QED BY <1>1

LEMMA ReadLoops ==
    ASSUME TypeOK, Loops, todo' = Tail(todo), InLoop,
           UNCHANGED <<objects, request, pc, verdict>>
    PROVE  /\ Loops'
           /\ pc = "env" /\ todo' = <<>> => Head(todo) = request.env[Len(request.env)]
           /\ pc = "envFrom" /\ todo' = <<>>
                => Head(todo) = request.envFrom[Len(request.envFrom)]
  <1>1. todo # <<>> /\ pc \in {"env", "envFrom"}
    BY DEF InLoop
  <1>2. request.env \in Seq(EnvEntries) /\ request.envFrom \in Seq(References)
    BY DEF TypeOK
  <1>3. ASSUME NEW S, NEW list \in Seq(S), Reading(list)
        PROVE  /\ Len(list) - Len(todo') \in DOMAIN list
               /\ Head(todo) = list[Len(list) - Len(todo')]
               /\ Len(todo') < Len(list) /\ Len(todo') <= Len(list)
               /\ \A i \in 1..Len(todo') : todo'[i] = list[Len(list) - Len(todo') + i]
    <2>1. Len(todo') < Len(list) => Len(todo') <= Len(list)
      BY <1>1, HeadTail, <1>3 DEF TypeOK
    <2> QED BY <1>1, <1>3, <2>1, ReadOn
  <1>4. CASE pc = "env"
    <2>1. Reading(request.env)
      BY <1>4 DEF Loops
    <2>2. /\ Len(request.env) - Len(todo') \in DOMAIN request.env
          /\ Head(todo) = request.env[Len(request.env) - Len(todo')]
          /\ Reading(request.env)' /\ Begun(request.env)'
      BY <2>1, <1>2, <1>3 DEF Reading, Begun
    <2>3. todo' = <<>> => Head(todo) = request.env[Len(request.env)]
      BY <2>2, EndOfList, <1>2
    <2>4. Loops'
      BY <1>4, <2>2 DEF Loops, Applicable
    <2> QED BY <1>4, <2>2, <2>3, <2>4
  <1>5. CASE pc = "envFrom"
    <2>1. Reading(request.envFrom)
      BY <1>5 DEF Loops
    <2>2. /\ Len(request.envFrom) - Len(todo') \in DOMAIN request.envFrom
          /\ Head(todo) = request.envFrom[Len(request.envFrom) - Len(todo')]
          /\ Reading(request.envFrom)' /\ Begun(request.envFrom)'
      BY <2>1, <1>2, <1>3 DEF Reading, Begun
    <2>3. todo' = <<>> => Head(todo) = request.envFrom[Len(request.envFrom)]
      BY <2>2, EndOfList, <1>2
    <2>4. Loops'
      BY <1>5, <2>2 DEF Loops, Applicable
    <2> QED BY <1>5, <2>2, <2>3, <2>4
  <1> QED BY <1>1, <1>4, <1>5

LEMMA StepLoops == TypeOK /\ Loops /\ [Next]_vars => Loops'
  <1> SUFFICES ASSUME TypeOK, Loops, [Next]_vars PROVE Loops'
    OBVIOUS
  <1>1. CASE Review
    <2>1. pc' = "handle" /\ mode' = Unset /\ todo' = request'.env /\ verdict' = verdict
      BY <1>1 DEF Review
    <2>2. verdict = "none"
      BY <1>1 DEF Review, Loops
    <2> QED BY <2>1, <2>2 DEF Loops
  <1>2. CASE AcceptUnread
    BY <1>2 DEF AcceptUnread, Answer, Loops
  <1>3. CASE BeginValidation
    <2>1. /\ pc = "handle" /\ pc' = "env" /\ UNCHANGED <<objects, request, todo, mode, verdict>>
          /\ Applicable
      BY <1>3 DEF BeginValidation, Applicable
    <2>2. todo = request.env /\ mode = Unset /\ verdict = "none"
      BY <2>1 DEF Loops
    <2>3. Reading(request.env)
      BY <2>2, AllLeft DEF TypeOK
    <2> QED BY <2>1, <2>2, <2>3 DEF Loops, Reading, Applicable
  <1>4. CASE ReadValue
    BY <1>4, ReadLoops DEF ReadValue
  <1>5. CASE ReadReference
    BY <1>5, ReadLoops DEF ReadReference, IsReference
  <1>6. CASE GetFails
    BY <1>6 DEF GetFails, Answer, Loops
  <1>7. CASE EnvDone
    <2>1. pc = "env" /\ verdict = "none" /\ Applicable
      BY <1>7 DEF EnvDone, Loops
    <2>2. UNCHANGED <<objects, request, mode, verdict>>
      BY <1>7 DEF EnvDone
    <2>3. CASE mode = Unset
      <3>1. pc' = "envFrom" /\ todo' = request.envFrom
        BY <1>7, <2>3 DEF EnvDone
      <3>2. request'.envFrom \in Seq(References)
        BY <2>2 DEF TypeOK
      <3>3. Reading(request.envFrom)'
        BY <2>2, <3>1, <3>2 DEF Reading
      <3> QED BY <2>1, <2>2, <2>3, <3>1, <3>3 DEF Loops, Applicable
    <2>4. CASE mode # Unset
      BY <1>7, <2>1, <2>2, <2>4 DEF EnvDone, Loops, Applicable
    <2> QED BY <2>3, <2>4
  <1>8. CASE EnvFromDone
    BY <1>8 DEF EnvFromDone, Loops, Applicable
  <1>9. CASE Decide
    BY <1>9 DEF Decide, Answer, Loops
  <1>10. CASE ObjectChanges
    BY <1>10 DEF ObjectChanges, review, Loops, Applicable, Reading, Begun
  <1>11. CASE UNCHANGED vars
    BY <1>11 DEF vars, review, Loops, Applicable, Reading, Begun
  <1>12. CASE ReadField
    BY <1>12, ReadLoops DEF ReadField
  <1> QED BY <1>1, <1>2, <1>3, <1>4, <1>5, <1>6, <1>7, <1>8, <1>9, <1>10, <1>11, <1>12
          DEF Next, Validation
-----------------------------------------------------------------------------
(* What the review finds, while nothing changes.                             *)

\* A change of the objects, and a review that fails, end the calm.
LEMMA SettledSupported ==
    ASSUME ~calm' PROVE Supported' /\ Unsupported'
  BY DEF Supported, Unsupported

\* The last entry of env decides, and it is not one that hides its value.
LEMMA EnvVisible ==
    ASSUME request.env # <<>>, Visible
    PROVE  ~Hides(request.env[Len(request.env)], TRUE)
  BY DEF Visible

\* Where the code says that a DataPlane is supported.
LEMMA StepSupported ==
    ASSUME TypeOK, Loops, Supported, [Next]_vars
    PROVE  Supported'
  <1> USE ValuesAssumption
  <1>1. CASE Review
    BY <1>1 DEF Review, Supported
  <1>2. CASE AcceptUnread
    <2>1. ~Applicable' /\ pc' = "done"
      BY <1>2 DEF AcceptUnread, Answer, Applicable
    <2> QED BY <2>1 DEF Supported
  <1>3. CASE BeginValidation
    <2>1. todo' = request'.env /\ pc' = "env"
      BY <1>3 DEF BeginValidation, Loops
    <2> QED BY <2>1 DEF Supported
  <1>4. CASE ReadValue
    <2>1. /\ UNCHANGED <<objects, request, pc, calm, verdict>> /\ todo' = Tail(todo)
          /\ InLoop /\ Head(todo).kind = "value"
          /\ mode' = IF Head(todo).value = "" THEN mode ELSE Head(todo).value
      BY <1>4 DEF ReadValue
    <2>2. Head(todo).value \in Modes /\ Setting(Head(todo)) = Head(todo).value
      BY <1>4, LiteralRead
    <2>3. mode' \in {Unset, "", "off"} => DBLess(Setting(Head(todo)))
      BY <2>1, <2>2 DEF DBLess
    <2>4. pc = "env"
      BY <2>1, EnvFromReads, KindsAssumption DEF InLoop
    <2>5. todo' = <<>> => Head(todo) = request.env[Len(request.env)]
      BY <2>1, <2>4, ReadLoops
    <2> QED BY <2>1, <2>3, <2>4, <2>5, SameReview DEF Supported, LastSetting
  <1>5. CASE ReadReference
    <2>1. /\ UNCHANGED <<objects, request, pc, calm, verdict>> /\ todo' = Tail(todo) /\ InLoop
      BY <1>5 DEF ReadReference, IsReference
    <2>2. CASE pc = "env"
      <3>1. todo' = <<>> => Head(todo) = request.env[Len(request.env)]
        BY <2>1, <2>2, ReadLoops
      <3>2. ASSUME todo' = <<>>, request.env # <<>>, Starts, Visible, mode' \in {Unset, "", "off"}
            PROVE  DBLess(LastSetting(request.env))
        <4>1. ~Hides(Head(todo), TRUE) /\ Setting(Head(todo)) = LastSetting(request.env)
          BY <3>1, <3>2, EnvVisible DEF LastSetting
        <4>2. Setting(Head(todo)) # Unset
          BY <4>1, <3>2, LastStarts
        <4> QED BY <1>5, <2>2, <3>2, <4>1, <4>2, ReferenceMode
      <3> QED BY <2>1, <2>2, <3>2, SameReview DEF Supported
    <2>3. CASE pc = "envFrom"
      <3>1. todo' = <<>> => Head(todo) = request.envFrom[Len(request.envFrom)]
        BY <2>1, <2>3, ReadLoops
      <3>2. ASSUME todo' = <<>>, request.env = <<>>, request.envFrom # <<>>, Visible,
                   mode' \in {Unset, "", "off"}
            PROVE  DBLess(LastSetting(request.envFrom))
        <4>1. /\ ~Hides(Head(todo), FALSE) /\ Setting(Head(todo)) # Unset
              /\ Setting(Head(todo)) = LastSetting(request.envFrom)
          BY <3>1, <3>2 DEF Visible, LastSetting
        <4> QED BY <1>5, <2>3, <3>2, <4>1, ReferenceMode
      <3> QED BY <2>1, <2>3, <3>2, SameReview DEF Supported
    <2> QED BY <2>1, <2>2, <2>3 DEF InLoop
  <1>6. CASE GetFails
    BY <1>6, SettledSupported DEF GetFails
  <1>7. CASE EnvDone
    <2>1. pc = "env" /\ todo = <<>> /\ UNCHANGED <<objects, request, mode, verdict, calm>>
      BY <1>7 DEF EnvDone
    <2>2. request.env \in Seq(EnvEntries) /\ (mode = Unset \/ Begun(request.env))
      BY <2>1 DEF TypeOK, Loops
    <2>3. Begun(request.env) <=> request.env # <<>>
      BY <2>1, <2>2, ReadAll
    <2>4. CASE mode = Unset
      <3>1. pc' = "envFrom" /\ todo' = request'.envFrom
        BY <1>7, <2>4 DEF EnvDone
      <3> QED BY <2>1, <2>4, <3>1, SameReview DEF Supported
    <2>5. CASE mode # Unset
      <3>1. pc' = "decide"
        BY <1>7, <2>5 DEF EnvDone
      <3>2. DBLess(LastSetting(request.env)) => Effective = LastSetting(request.env)
        BY <2>2, <2>3, <2>5, EnvDecides DEF DBLess
      <3> QED BY <2>1, <2>2, <2>3, <2>5, <3>1, <3>2, SameReview DEF Supported
    <2> QED BY <2>4, <2>5
  <1>8. CASE EnvFromDone
    <2>1. /\ pc = "envFrom" /\ todo = <<>> /\ pc' = "decide"
          /\ UNCHANGED <<objects, request, mode, verdict, calm>>
      BY <1>8 DEF EnvFromDone
    <2>2. ASSUME calm, Starts, Visible, mode \in {Unset, "", "off"} PROVE DBLess(Effective)
      <3>1. CASE request.env # <<>>
        <4>1. DBLess(LastSetting(request.env))
          BY <2>1, <2>2, <3>1 DEF Supported
        <4> QED BY <3>1, <4>1, EnvDecides DEF DBLess
      <3>2. CASE request.env = <<>> /\ request.envFrom # <<>>
        <4>1. DBLess(LastSetting(request.envFrom))
          BY <2>1, <2>2, <3>2 DEF Supported
        <4> QED BY <3>2, <4>1, EnvFromDecides DEF DBLess
      <3>3. CASE request.env = <<>> /\ request.envFrom = <<>>
        BY <3>3, NothingDecides DEF DBLess
      <3> QED BY <3>1, <3>2, <3>3
    <2> QED BY <2>1, <2>2, SameReview DEF Supported
  <1>9. CASE Decide
    <2>1. /\ pc = "decide" /\ pc' = "done" /\ UNCHANGED <<objects, request, calm>>
          /\ verdict' = IF mode \in {Unset, "", "off"} THEN "allowed" ELSE "refused"
      BY <1>9 DEF Decide, Answer
    <2> QED BY <2>1, SameReview DEF Supported
  <1>10. CASE ObjectChanges
    BY <1>10, SettledSupported DEF ObjectChanges
  <1>11. CASE UNCHANGED vars
    BY <1>11, SameReview DEF vars, review, Supported
  <1>12. CASE ReadField
    <2>1. /\ UNCHANGED <<objects, request, pc, calm, verdict>> /\ todo' = Tail(todo)
          /\ InLoop /\ Head(todo).kind = "field"
      BY <1>12 DEF ReadField
    <2>2. pc = "env"
      BY <2>1, EnvFromReads, KindsAssumption DEF InLoop
    <2>3. todo' = <<>> => Head(todo) = request.env[Len(request.env)]
      BY <2>1, <2>2, ReadLoops
    <2>4. todo' = <<>> /\ request.env # <<>> /\ Visible => DBLess(LastSetting(request.env))
      BY <2>1, <2>3, EnvVisible DEF Hides, LastSetting
    <2> QED BY <2>1, <2>2, <2>4, SameReview DEF Supported
  <1> QED BY <1>1, <1>2, <1>3, <1>4, <1>5, <1>6, <1>7, <1>8, <1>9, <1>10, <1>11, <1>12
          DEF Next, Validation

\* Where the code says that it is not.
LEMMA StepUnsupported ==
    ASSUME TypeOK, Loops, Unsupported, [Next]_vars
    PROVE  Unsupported'
  <1> USE ValuesAssumption
  <1>1. CASE Review
    BY <1>1 DEF Review, Unsupported
  <1>2. CASE AcceptUnread
    <2>1. ~Applicable' /\ pc' = "done"
      BY <1>2 DEF AcceptUnread, Answer, Applicable
    <2> QED BY <2>1 DEF Unsupported
  <1>3. CASE BeginValidation
    <2>1. todo' = request'.env /\ pc' = "env"
      BY <1>3 DEF BeginValidation, Loops
    <2> QED BY <2>1 DEF Unsupported
  <1>4. CASE ReadValue
    <2>1. /\ UNCHANGED <<objects, request, pc, calm, verdict>> /\ todo' = Tail(todo)
          /\ InLoop /\ Head(todo).kind = "value"
          /\ mode' = IF Head(todo).value = "" THEN mode ELSE Head(todo).value
      BY <1>4 DEF ReadValue
    <2>2. Head(todo).value \in Modes /\ Setting(Head(todo)) = Head(todo).value
      BY <1>4, LiteralRead
    <2>3. pc = "env"
      BY <2>1, EnvFromReads, KindsAssumption DEF InLoop
    <2>4. todo' = <<>> => Head(todo) = request.env[Len(request.env)]
      BY <2>1, <2>3, ReadLoops
    <2>5. ASSUME todo' = <<>>, request.env # <<>>, Plain, mode' \notin {"", "off"}
          PROVE  ~DBLess(LastSetting(request.env))
      <3>1. Setting(Head(todo)) # "" /\ Setting(Head(todo)) = LastSetting(request.env)
        BY <2>4, <2>5 DEF Plain, LastSetting
      <3> QED BY <2>1, <2>2, <2>5, <3>1 DEF DBLess
    <2> QED BY <2>1, <2>3, <2>5, SameReview DEF Unsupported
  <1>5. CASE ReadReference
    <2>1. /\ UNCHANGED <<objects, request, pc, calm, verdict>> /\ todo' = Tail(todo) /\ InLoop
      BY <1>5 DEF ReadReference, IsReference
    <2>2. CASE pc = "env"
      <3>1. todo' = <<>> => Head(todo) = request.env[Len(request.env)]
        BY <2>1, <2>2, ReadLoops
      <3>2. ASSUME todo' = <<>>, request.env # <<>>, Plain, mode' \notin {"", "off"}
            PROVE  ~DBLess(LastSetting(request.env))
        <4>1. /\ Setting(Head(todo)) # "" /\ Setting(Head(todo)) = LastSetting(request.env)
              /\ Head(todo).kind = "secret" => Setting(Head(todo)) # "off"
          BY <3>1, <3>2 DEF Plain, LastSetting
        <4> QED BY <1>5, <2>2, <3>2, <4>1, ReferenceMode
      <3> QED BY <2>1, <2>2, <3>2, SameReview DEF Unsupported
    <2>3. CASE pc = "envFrom"
      <3>1. todo' = <<>> => Head(todo) = request.envFrom[Len(request.envFrom)]
        BY <2>1, <2>3, ReadLoops
      <3>2. ASSUME todo' = <<>>, request.env = <<>>, request.envFrom # <<>>, Plain,
                   mode' \notin {Unset, "", "off"}
            PROVE  LastSetting(request.envFrom) # Unset /\ ~DBLess(LastSetting(request.envFrom))
        <4>1. /\ Head(todo).kind = "secret" => Setting(Head(todo)) # "off"
              /\ Setting(Head(todo)) = LastSetting(request.envFrom)
          BY <3>1, <3>2 DEF Plain, LastSetting
        <4> QED BY <1>5, <2>3, <3>2, <4>1, ReferenceMode
      <3> QED BY <2>1, <2>3, <3>2, SameReview DEF Unsupported
    <2> QED BY <2>1, <2>2, <2>3 DEF InLoop
  <1>6. CASE GetFails
    BY <1>6, SettledSupported DEF GetFails
  <1>7. CASE EnvDone
    <2>1. pc = "env" /\ todo = <<>> /\ UNCHANGED <<objects, request, mode, verdict, calm>>
      BY <1>7 DEF EnvDone
    <2>2. request.env \in Seq(EnvEntries) /\ (mode = Unset \/ Begun(request.env))
      BY <2>1 DEF TypeOK, Loops
    <2>3. Begun(request.env) <=> request.env # <<>>
      BY <2>1, <2>2, ReadAll
    <2>4. CASE mode = Unset
      <3>1. pc' = "envFrom" /\ todo' = request'.envFrom
        BY <1>7, <2>4 DEF EnvDone
      <3> QED BY <2>1, <2>4, <3>1, SameReview DEF Unsupported
    <2>5. CASE mode # Unset
      <3>1. pc' = "decide"
        BY <1>7, <2>5 DEF EnvDone
      <3>2. Starts => LastSetting(request.env) # Unset
        BY <2>2, <2>3, <2>5, LastStarts
      <3>3. Starts => Effective = LastSetting(request.env)
        BY <2>2, <2>3, <2>5, <3>2, EnvDecides
      <3> QED BY <2>1, <2>2, <2>3, <2>5, <3>1, <3>3, SameReview DEF Unsupported
    <2> QED BY <2>4, <2>5
  <1>8. CASE EnvFromDone
    <2>1. /\ pc = "envFrom" /\ todo = <<>> /\ pc' = "decide"
          /\ UNCHANGED <<objects, request, mode, verdict, calm>>
      BY <1>8 DEF EnvFromDone
    <2>2. request.envFrom \in Seq(References)
      BY DEF TypeOK
    <2>3. Begun(request.envFrom) <=> request.envFrom # <<>>
      BY <2>1, <2>2, ReadAll
    <2>4. ASSUME calm, Starts, Plain, mode \notin {Unset, "", "off"} PROVE ~DBLess(Effective)
      <3>1. CASE request.env # <<>>
        <4>1. ~DBLess(LastSetting(request.env))
          BY <2>1, <2>4, <3>1 DEF Unsupported
        <4>2. LastSetting(request.env) # Unset
          BY <2>4, <3>1, LastStarts
        <4> QED BY <3>1, <4>1, <4>2, EnvDecides
      <3>2. CASE request.env = <<>>
        <4>1. request.envFrom # <<>>
          BY <2>1, <2>3, <2>4 DEF Loops
        <4>2. LastSetting(request.envFrom) # Unset /\ ~DBLess(LastSetting(request.envFrom))
          BY <2>1, <2>4, <3>2, <4>1 DEF Unsupported
        <4> QED BY <3>2, <4>1, <4>2, EnvFromDecides
      <3> QED BY <3>1, <3>2
    <2> QED BY <2>1, <2>4, SameReview DEF Unsupported
  <1>9. CASE Decide
    <2>1. /\ pc = "decide" /\ pc' = "done" /\ UNCHANGED <<objects, request, calm>>
          /\ verdict' = IF mode \in {Unset, "", "off"} THEN "allowed" ELSE "refused"
      BY <1>9 DEF Decide, Answer
    <2> QED BY <2>1, SameReview DEF Unsupported
  <1>10. CASE ObjectChanges
    BY <1>10, SettledSupported DEF ObjectChanges
  <1>11. CASE UNCHANGED vars
    BY <1>11, SameReview DEF vars, review, Unsupported
  <1>12. CASE ReadField
    <2>1. /\ UNCHANGED <<objects, request, pc, calm, verdict>> /\ todo' = Tail(todo)
          /\ InLoop /\ Head(todo).kind = "field"
      BY <1>12 DEF ReadField
    <2>2. pc = "env"
      BY <2>1, EnvFromReads, KindsAssumption DEF InLoop
    <2>3. todo' = <<>> => Head(todo) = request.env[Len(request.env)]
      BY <2>1, <2>2, ReadLoops
    <2>4. todo' = <<>> /\ request.env # <<>> /\ Plain => ~DBLess(LastSetting(request.env))
      BY <2>1, <2>3 DEF Plain, LastSetting, DBLess
    <2> QED BY <2>1, <2>2, <2>4, SameReview DEF Unsupported
  <1> QED BY <1>1, <1>2, <1>3, <1>4, <1>5, <1>6, <1>7, <1>8, <1>9, <1>10, <1>11, <1>12
          DEF Next, Validation

\* Whatever the objects hold and the decoders make of it, and whatever is in env
\* and envFrom: a DataPlane that is admitted while nothing changes and nothing
\* fails runs without a database, unless the one entry that decides is one the
\* code cannot read.
THEOREM AdmittedIsDBLess == Spec => []DBLessWhenVisible
  <1>1. Init => TypeOK /\ Loops /\ Supported
    BY InitTypes, InitReview DEF ReviewInv
  <1>2. TypeOK /\ Loops /\ Supported /\ [Next]_vars => (TypeOK /\ Loops /\ Supported)'
    BY StepTypes, StepLoops, StepSupported
  <1>3. Loops /\ Supported => DBLessWhenVisible
    BY DEF Loops, Supported, DBLessWhenVisible, Reviewed
  <1> QED BY <1>1, <1>2, <1>3, PTL DEF Spec

\* The other direction: a DataPlane whose deciding entry is plain is refused, while
\* nothing changes and nothing fails, only for a database.
THEOREM RefusedHasDatabase == Spec => []DBLessAccepted
  <1>1. Init => TypeOK /\ Loops /\ Unsupported
    BY InitTypes, InitReview DEF ReviewInv
  <1>2. TypeOK /\ Loops /\ Unsupported /\ [Next]_vars => (TypeOK /\ Loops /\ Unsupported)'
    BY StepTypes, StepLoops, StepUnsupported
  <1>3. Loops /\ Unsupported => DBLessAccepted
    BY DEF Loops, Unsupported, DBLessAccepted, Reviewed
  <1> QED BY <1>1, <1>2, <1>3, PTL DEF Spec

\* The whole inductive invariant, for all contents and decoders: a loop that has
\* come to its end has the mode of the entry that decides, and a mode the review
\* takes to be supported, or not, is so of the container.
THEOREM ReviewInvariance == Spec => []ReviewInv
  <1>1. Init => TypeOK /\ ReviewInv
    BY InitTypes, InitReview
  <1>2. TypeOK /\ ReviewInv /\ [Next]_vars => (TypeOK /\ ReviewInv)'
    BY StepTypes, StepLoops, StepSupported, StepUnsupported DEF ReviewInv
  <1> QED BY <1>1, <1>2, PTL DEF Spec
=============================================================================
