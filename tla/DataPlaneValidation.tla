------------------------ MODULE DataPlaneValidation ------------------------
(* The admission webhook (internal/admission) and the only thing it checks of *)
(* a DataPlane: the database its container is configured with                 *)
(* (internal/validation/dataplane/validation.go).                             *)
(*                                                                            *)
(* A review walks over the container's env and then, if the mode was not      *)
(* found there, over its envFrom.  Each ConfigMap or Secret is read with a    *)
(* call of its own, and objects may change between two of them.  The webhook  *)
(* keeps nothing from one review to the next: a behaviour is one review.      *)
EXTENDS Integers, Sequences

CONSTANTS
    ObjectNames,  \* ConfigMaps and Secrets, one name for each
    ObjectKinds,  \* which of the two there are
    Contents,     \* what such an object holds for APISIX_DATABASE, or Unset
    Modes,        \* the literal values users write
    FieldValues,  \* what the fields of a pod hold that users refer to
    StdDecoding,  \* what base64 makes of each content, with padding ...
    RawDecoding,  \* ... and without it: "off", "", anything else, or an error
    Missing,      \* there is no such object
    Unset,        \* the object lacks the key; no mode was found
    MaxEntries,   \* bound: length of env and of envFrom
    MaxChanges,   \* bound: changes of objects
    MaxFaults     \* bound: failing calls

ASSUME KindsAssumption == ObjectKinds \subseteq {"configMap", "secret"}

\* What is not there differs from every value, those the code decodes included.
ASSUME ValuesAssumption ==
    /\ Missing # Unset /\ Missing \notin Contents
    /\ {Missing, Unset} \cap (Modes \cup FieldValues \cup {"", "off", "garbage"}) = {}

\* Of a decoded text the review asks only whether it is "off" or empty: "garbage"
\* is any other one, and Unset a decoder's error.  The empty text decodes to itself.
Decodings == {"", "off", "garbage", Unset}

ASSUME DecodersAssumption ==
    /\ \A text \in Contents \ {Unset} : {StdDecoding[text], RawDecoding[text]} \subseteq Decodings
    /\ "" \in Contents => RawDecoding[""] = ""

ASSUME BoundsAssumption == MaxEntries \in Nat /\ MaxChanges \in Nat /\ MaxFaults \in Nat

VARIABLES
    objects,   \* what the cluster stores
    request,   \* resource, operation, env and envFrom of the review's object
    pc,        \* "idle", "handle", "env", "envFrom", "decide", "done"
    todo,      \* the entries that the loop has not reached
    mode,      \* dbMode and dbModeFound: the mode, or Unset
    verdict,   \* what the webhook answered
    calm,      \* history: nothing changed and nothing failed during the review
    changes, faults

review == <<request, pc, todo, mode, verdict>>
vars == <<objects, review, calm, changes, faults>>

-----------------------------------------------------------------------------
(* Entries, and what the code and the kubelet read from them.                *)

\* An entry of env with the name APISIX_DATABASE, or an envFrom whose prefix is
\* one of that name: a literal, a field of the pod (fieldRef, resourceFieldRef),
\* or a reference to an object.  The others, which both loops skip, do not occur.
References == [kind : ObjectKinds, object : ObjectNames]
EnvEntries == [kind : {"value"}, value : Modes] \cup [kind : {"field"}, value : FieldValues]
                  \cup References

Lists(entries) == UNION {[1..n -> entries] : n \in 0..MaxEntries}

\* encoding/base64, applied to bytes that the API machinery has decoded already.
Decoded(content, padded) == IF padded THEN StdDecoding[content] ELSE RawDecoding[content]

\* getValueFromConfigMapKeyRef and getValueFromSecretRef: an empty value counts
\* as not found.
ValueFromKeyRef(entry, content) ==
    IF content \in {Unset, ""} THEN Unset
    ELSE IF entry.kind = "secret" THEN Decoded(content, TRUE) ELSE content

\* getDBModeFromConfigMapRef and getDBModeFromSecretRef: an empty value counts.
ValueFromRef(entry, content) ==
    IF content = Unset THEN Unset
    ELSE IF entry.kind = "secret" THEN Decoded(content, FALSE) ELSE content

\* The variable in the container: what the last entry that sets it says, and
\* env comes after envFrom.
Setting(entry) ==
    IF entry.kind \in {"value", "field"} THEN entry.value ELSE objects[entry.object]

Effective ==
    LET all == request.envFrom \o request.env
        setting == {i \in DOMAIN all : Setting(all[i]) # Unset}
    IN  IF setting = {} THEN ""
        ELSE Setting(all[CHOOSE i \in setting : \A j \in setting : j <= i])

\* The kubelet starts a container only when the objects it refers to, and the
\* keys its env refers to, are there (no reference is optional).
Starts ==
    /\ \A i \in DOMAIN request.env : Setting(request.env[i]) \notin {Unset, Missing}
    /\ \A i \in DOMAIN request.envFrom : Setting(request.envFrom[i]) # Missing

DBLess(value) == value \in {"", "off"}

-----------------------------------------------------------------------------
(* A review.                                                                 *)

Answer(v) == verdict' = v /\ pc' = "done" /\ todo' = <<>> /\ mode' = Unset

NoRequest == [resource |-> "none", operation |-> "none", env |-> <<>>, envFrom |-> <<>>]

\* A request arrives.
Review ==
    /\ pc = "idle"
    /\ \E resource \in {"dataplanes", "controlplanes"},
          operation \in {"CREATE", "UPDATE", "DELETE"},
          env \in Lists(EnvEntries), envFrom \in Lists(References) :
           /\ request' = [resource |-> resource, operation |-> operation,
                          env |-> env, envFrom |-> envFrom]
           /\ todo' = env
    /\ pc' = "handle" /\ mode' = Unset /\ calm' = TRUE
    /\ UNCHANGED <<objects, verdict, changes, faults>>

\* handleValidation: ValidateControlPlane accepts everything, and so does a
\* review of another operation than CREATE and UPDATE.
AcceptUnread ==
    /\ pc = "handle"
    /\ request.resource = "controlplanes" \/ request.operation \notin {"CREATE", "UPDATE"}
    /\ Answer("allowed")
    /\ UNCHANGED <<objects, request, calm, changes, faults>>

BeginValidation ==
    /\ pc = "handle"
    /\ request.resource = "dataplanes" /\ request.operation \in {"CREATE", "UPDATE"}
    /\ pc' = "env"
    /\ UNCHANGED <<objects, request, todo, mode, verdict, calm, changes, faults>>

InLoop == pc \in {"env", "envFrom"} /\ todo # <<>>

\* A literal: an empty one leaves what was found before.
ReadValue ==
    /\ InLoop /\ Head(todo).kind = "value"
    /\ mode' = IF Head(todo).value = "" THEN mode ELSE Head(todo).value
    /\ todo' = Tail(todo)
    /\ UNCHANGED <<objects, request, pc, verdict, calm, changes, faults>>

\* A field of the pod: no branch of the loop is for it, and the mode stays.
ReadField ==
    /\ InLoop /\ Head(todo).kind = "field"
    /\ todo' = Tail(todo)
    /\ UNCHANGED <<objects, request, pc, mode, verdict, calm, changes, faults>>

IsReference == InLoop /\ Head(todo).kind \in ObjectKinds

\* A wrong step, which keeps the first mode that was found.
BugReadReference ==
    /\ IsReference /\ objects[Head(todo).object] # Missing
    /\ LET entry == Head(todo)
           content == objects[entry.object]
       IN  mode' = IF mode # Unset THEN mode
                   ELSE IF pc = "env" THEN ValueFromKeyRef(entry, content)
                   ELSE ValueFromRef(entry, content)
    /\ todo' = Tail(todo)
    /\ UNCHANGED <<objects, request, pc, verdict, calm, changes, faults>>

\* A wrong step, for which a missing object is one with an odd content.
BugReadMissing ==
    /\ IsReference
    /\ mode' = objects[Head(todo).object]
    /\ todo' = Tail(todo)
    /\ UNCHANGED <<objects, request, pc, verdict, calm, changes, faults>>

\* A reference: its result replaces what was found before, also by nothing.
ReadReference ==
    /\ IsReference /\ objects[Head(todo).object] # Missing
    /\ LET entry == Head(todo)
           content == objects[entry.object]
       IN  mode' = IF pc = "env" THEN ValueFromKeyRef(entry, content)
                   ELSE ValueFromRef(entry, content)
    /\ todo' = Tail(todo)
    /\ UNCHANGED <<objects, request, pc, verdict, calm, changes, faults>>

\* "failed to get ...": the object is missing, or the call fails.
GetFails ==
    /\ IsReference
    /\ IF objects[Head(todo).object] = Missing THEN UNCHANGED faults
       ELSE faults < MaxFaults /\ faults' = faults + 1
    /\ Answer("refused") /\ calm' = FALSE
    /\ UNCHANGED <<objects, request, changes>>

\* A wrong end of the first loop, which always goes on with the second one.
BugEnvDone ==
    /\ pc = "env" /\ todo = <<>>
    /\ pc' = "envFrom" /\ todo' = request.envFrom
    /\ UNCHANGED <<objects, request, mode, verdict, calm, changes, faults>>

\* dbMode was found in env, or is searched for in envFrom.
EnvDone ==
    /\ pc = "env" /\ todo = <<>>
    /\ IF mode = Unset THEN pc' = "envFrom" /\ todo' = request.envFrom
       ELSE pc' = "decide" /\ UNCHANGED todo
    /\ UNCHANGED <<objects, request, mode, verdict, calm, changes, faults>>

EnvFromDone ==
    /\ pc = "envFrom" /\ todo = <<>>
    /\ pc' = "decide"
    /\ UNCHANGED <<objects, request, todo, mode, verdict, calm, changes, faults>>

\* "database backend %s of dataplane not supported currently"
Decide ==
    /\ pc = "decide"
    /\ Answer(IF mode \in {Unset, "", "off"} THEN "allowed" ELSE "refused")
    /\ UNCHANGED <<objects, request, calm, changes, faults>>

-----------------------------------------------------------------------------
\* Administrators create, change and delete ConfigMaps and Secrets.
ObjectChanges ==
    /\ changes < MaxChanges /\ changes' = changes + 1
    /\ \E o \in ObjectNames, content \in Contents \cup {Missing} :
           content # objects[o] /\ objects' = [objects EXCEPT ![o] = content]
    /\ calm' = FALSE
    /\ UNCHANGED <<review, faults>>

Init ==
    /\ objects \in [ObjectNames -> Contents \cup {Missing}]
    /\ request = NoRequest /\ pc = "idle" /\ todo = <<>> /\ mode = Unset
    /\ verdict = "none" /\ calm = TRUE
    /\ changes = 0 /\ faults = 0

Validation ==
    \/ AcceptUnread \/ BeginValidation
    \/ ReadValue \/ ReadField \/ ReadReference \/ GetFails
    \/ EnvDone \/ EnvFromDone \/ Decide

Next == Review \/ Validation \/ ObjectChanges

Spec == Init /\ [][Next]_vars

-----------------------------------------------------------------------------
(* Properties.                                                               *)

\* Every variable has its type.
TypeOK ==
    /\ objects \in [ObjectNames -> Contents \cup {Missing}]
    /\ request \in [resource : {"none", "dataplanes", "controlplanes"},
                    operation : {"none", "CREATE", "UPDATE", "DELETE"},
                    env : Seq(EnvEntries), envFrom : Seq(References)]
    /\ pc \in {"idle", "handle", "env", "envFrom", "decide", "done"}
    /\ todo \in Seq(EnvEntries) /\ Len(todo) <= MaxEntries
    /\ Len(request.envFrom) <= MaxEntries
    /\ mode \in Modes \cup Contents \cup Decodings
    /\ verdict \in {"none", "allowed", "refused"}
    /\ calm \in BOOLEAN /\ changes \in 0..MaxChanges /\ faults \in 0..MaxFaults

Applicable == request.resource = "dataplanes" /\ request.operation \in {"CREATE", "UPDATE"}

Reviewed == calm /\ verdict # "none" /\ Applicable

LastSetting(list) == Setting(list[Len(list)])

\* "Currently only DBLess mode (empty, or "off") is supported": a DataPlane that
\* is admitted while nothing changes runs its container in that mode, if at all,
\* by the precedence of env over envFrom and of later entries over earlier ones.
\* The code breaks it in three ways, which Visible names.
DBLessOnly == Reviewed /\ verdict = "allowed" /\ Starts => DBLess(Effective)

\* Entries that set a database while the code finds none in them: a field of the
\* pod, and a Secret that base64 cannot decode or decodes to a supported mode.
Hides(entry, padded) ==
    /\ ~DBLess(Setting(entry))
    /\ \/ entry.kind = "field"
       \/ entry.kind = "secret" /\ Decoded(Setting(entry), padded) \in {Unset, "", "off"}

\* The entry that decides, the last one, can be read: it hides nothing, and an
\* object of envFrom has the key.  All others are as they are.
Visible ==
    /\ request.env # <<>> => ~Hides(request.env[Len(request.env)], TRUE)
    /\ request.env = <<>> /\ request.envFrom # <<>>
         => /\ LastSetting(request.envFrom) # Unset
            /\ ~Hides(request.envFrom[Len(request.envFrom)], FALSE)

\* What holds of DBLessOnly: whatever the entries before it are, an admitted
\* DataPlane whose deciding entry the code can read runs without a database.
DBLessWhenVisible ==
    Reviewed /\ verdict = "allowed" /\ Starts /\ Visible => DBLess(Effective)

\* The deciding entry is not an empty variable, which the code skips, nor the
\* mode "off" in a Secret or a field, where the code does not find it.
Plain ==
    /\ request.env # <<>>
         => LET last == request.env[Len(request.env)]
            IN  /\ Setting(last) # ""
                /\ last.kind \in {"secret", "field"} => Setting(last) # "off"
    /\ request.env = <<>> /\ request.envFrom # <<>>
         => LET last == request.envFrom[Len(request.envFrom)]
            IN  last.kind = "secret" => Setting(last) # "off"

\* The other direction: a DataPlane whose deciding entry is plain is refused only
\* for a mode that is not supported.
DBLessAccepted == Reviewed /\ verdict = "refused" /\ Starts /\ Plain => ~DBLess(Effective)

-----------------------------------------------------------------------------
(* An inductive invariant.                                                   *)

\* The loop over list has todo left.
Reading(list) ==
    /\ Len(todo) <= Len(list)
    /\ \A i \in 1..Len(todo) : todo[i] = list[Len(list) - Len(todo) + i]

Begun(list) == Len(todo) < Len(list)

Loops ==
    /\ pc = "handle" => todo = request.env /\ mode = Unset
    /\ pc = "env" => Reading(request.env) /\ (~Begun(request.env) => mode = Unset)
    /\ pc = "envFrom" => Reading(request.envFrom) /\ (~Begun(request.envFrom) => mode = Unset)
    /\ pc \in {"env", "envFrom", "decide"} => Applicable
    /\ verdict # "none" => pc = "done"

\* A loop at its end has the mode that its last entry leads to, and a mode that
\* is supported is the one of a container that is ...
Supported ==
    calm /\ Starts /\ Visible =>
        /\ pc = "env" /\ todo = <<>> /\ request.env # <<>> /\ mode \in {Unset, "", "off"}
             => DBLess(LastSetting(request.env))
        /\ pc = "envFrom" /\ request.env # <<>> => DBLess(LastSetting(request.env))
        /\ pc = "envFrom" /\ request.env = <<>> /\ todo = <<>> /\ request.envFrom # <<>>
             /\ mode \in {Unset, "", "off"} => DBLess(LastSetting(request.envFrom))
        /\ pc = "decide" /\ mode \in {Unset, "", "off"} => DBLess(Effective)
        /\ pc = "done" /\ Applicable /\ verdict = "allowed" => DBLess(Effective)

\* ... and one that is not is the mode of a container that is not.
Unsupported ==
    calm /\ Starts /\ Plain =>
        /\ pc = "env" /\ todo = <<>> /\ request.env # <<>> /\ mode \notin {"", "off"}
             => ~DBLess(LastSetting(request.env))
        /\ pc = "envFrom" /\ request.env # <<>> => ~DBLess(LastSetting(request.env))
        /\ pc = "envFrom" /\ request.env = <<>> /\ todo = <<>> /\ request.envFrom # <<>>
             /\ mode \notin {Unset, "", "off"}
             => LastSetting(request.envFrom) # Unset /\ ~DBLess(LastSetting(request.envFrom))
        /\ pc = "decide" /\ mode \notin {Unset, "", "off"} => ~DBLess(Effective)
        /\ pc = "done" /\ Applicable /\ verdict = "refused" => ~DBLess(Effective)

ReviewInv == Loops /\ Supported /\ Unsupported
=============================================================================
