-------------------------------- MODULE Copies --------------------------------
(***************************************************************************)
(* Deep copies (zz_generated_deepcopy.go). The handlers and the command    *)
(* line get objects that are not theirs alone, as the ones the informer's  *)
(* cache holds, and change a copy (updateHash, SetExecutionLogs,           *)
(* stateUnlock, runState). An assignment of a struct shares its maps,      *)
(* slices and pointers: the copy must have its own.                        *)
(*                                                                         *)
(* An object is the cell that each of its reference fields points to; the  *)
(* other fields are copied by any assignment and left out. A list has one  *)
(* element. External: the copy of metadata, one field of which stands for  *)
(* all.                                                                    *)
(***************************************************************************)
EXTENDS Naturals, SequencesExt

CONSTANTS MaxWrites   \* cells that are written

VARIABLES
    kind,       \* the type of the object
    original,   \* the object: reference fields to cells
    copy,       \* DeepCopy's result
    memory      \* what is in a cell: as it was read, or as it was written since

copyVars == <<kind, original, copy, memory>>

-----------------------------------------------------------------------------
(* Types: the reference fields of each *)

In(field, paths) == {<<field>> \o p : p \in paths}

Direct(fields) == {<<f>> : f \in fields}

ObjectMetaFields == Direct({"Annotations"})

ModuleContentFields == Direct({"Content"})

ModuleFields ==
    In("ObjectMeta", ObjectMetaFields) \cup
    In("Spec", In("ModuleContent", ModuleContentFields)) \cup
    In("Status", Direct({"GitChecked", "Conditions"}) \cup In("Content", ModuleContentFields))

StateFields ==
    In("ObjectMeta", ObjectMetaFields) \cup
    In("Spec", Direct({"Data", "NodeSelector"}) \cup
               In("Variables", Direct({"EnvConfigName", "EnvSecretNames",
                                    "ConfigNames", "SecretNames"}))) \cup
    In("Status", Direct({"Conditions"}))

ExecutionFields ==
    In("ObjectMeta", ObjectMetaFields) \cup
    In("Spec", Direct({"Data"}) \cup In("Content", ModuleContentFields)) \cup
    In("Status", Direct({"Conditions"}))

\* A list with one element
ListFields(fields) == Direct({"Items"}) \cup In("Items", fields)

Fields == [Module |-> ModuleFields, ModuleList |-> ListFields(ModuleFields),
           State |-> StateFields, StateList |-> ListFields(StateFields),
           Execution |-> ExecutionFields, ExecutionList |-> ListFields(ExecutionFields)]

-----------------------------------------------------------------------------
(* DeepCopyInto: the fields that are made anew, the others staying shared   *)

ObjectMetaMade == Direct({"Annotations"})

ModuleContentMade == Direct({"Content"})

ModuleSpecMade == In("ModuleContent", ModuleContentMade)

\* Mutant of ModuleStatusMade: the content of the status is assigned.
ModuleStatusAssigned == Direct({"GitChecked", "Conditions"})

ModuleStatusMade ==
    Direct({"GitChecked", "Conditions"}) \cup In("Content", ModuleContentMade)

ModuleMade ==
    In("ObjectMeta", ObjectMetaMade) \cup In("Spec", ModuleSpecMade) \cup
    In("Status", ModuleStatusMade)

ExecutionSpecMade == In("Content", ModuleContentMade) \cup Direct({"Data"})

ExecutionStatusMade == Direct({"Conditions"})

ExecutionMade ==
    In("ObjectMeta", ObjectMetaMade) \cup In("Spec", ExecutionSpecMade) \cup
    In("Status", ExecutionStatusMade)

VariablesMade ==
    Direct({"EnvConfigName", "EnvSecretNames", "ConfigNames", "SecretNames"})

StateSpecMade == In("Variables", VariablesMade) \cup Direct({"Data", "NodeSelector"})

StateStatusMade == Direct({"Conditions"})

StateMade ==
    In("ObjectMeta", ObjectMetaMade) \cup In("Spec", StateSpecMade) \cup
    In("Status", StateStatusMade)

ModuleListMade == Direct({"Items"}) \cup In("Items", ModuleMade)

StateListMade == Direct({"Items"}) \cup In("Items", StateMade)

ExecutionListMade == Direct({"Items"}) \cup In("Items", ExecutionMade)

Made == [Module |-> ModuleMade, ModuleList |-> ModuleListMade,
         State |-> StateMade, StateList |-> StateListMade,
         Execution |-> ExecutionMade, ExecutionList |-> ExecutionListMade]

-----------------------------------------------------------------------------
(* Objects *)

Nil == <<"nil">>

\* No copy yet
None == <<>>

\* Cells are named after the object they were made for and the field.
CellOf(object, p) == <<object>> \o p

CopiesInit ==
    /\ kind \in DOMAIN Fields
    /\ \E nil \in {{}} \cup {{q \in Fields[kind] : IsPrefix(p, q)} : p \in Fields[kind]} :
          original = [p \in Fields[kind] |->
                        IF p \in nil THEN Nil ELSE CellOf("original", p)]
    /\ copy = None
    /\ memory = [c \in {CellOf("original", p) : p \in Fields[kind]} |-> "read"]

\* What a reader of an object sees in its fields
Seen(object) == [p \in Fields[kind] |->
                   IF object[p] = Nil THEN "nil" ELSE memory[object[p]]]

\* *out = *in, then a map, slice or pointer of its own, with the same
\* contents, for each field that is not nil.
DeepCopy ==
    LET new == {p \in Made[kind] : original[p] # Nil}
    IN  /\ copy = None
        /\ copy' = [p \in Fields[kind] |->
                      IF p \in new THEN CellOf("copy", p) ELSE original[p]]
        /\ memory' = [c \in DOMAIN memory \cup {CellOf("copy", p) : p \in new} |->
                        IF c \in DOMAIN memory THEN memory[c]
                        ELSE memory[original[Tail(c)]]]
        /\ UNCHANGED <<kind, original>>

Touched == {c \in DOMAIN memory : memory[c] = "written"}

\* A map entry or an element of a slice is set through one of the objects,
\* as the conditions' setters do.
WriteThrough(object, p) ==
    /\ object # None
    /\ object[p] # Nil
    /\ Cardinality(Touched) < MaxWrites
    /\ memory' = [memory EXCEPT ![object[p]] = "written"]
    /\ UNCHANGED <<kind, original, copy>>

\* The object the Module handler copies: the copy's status gets the content
\* of the copy's spec (updateHash), which the two then share.
UpdateHash ==
    /\ kind = "Module"
    /\ copy # None
    /\ copy' = [copy EXCEPT ![<<"Status", "Content", "Content">>] =
                              copy[<<"Spec", "ModuleContent", "Content">>]]
    /\ UNCHANGED <<kind, original, memory>>

CopiesNext ==
    \/ DeepCopy
    \/ \E p \in Fields[kind] : WriteThrough(original, p)
    \/ \E p \in Fields[kind] : WriteThrough(copy, p)
    \/ UpdateHash

CopiesSpec == CopiesInit /\ [][CopiesNext]_copyVars

-----------------------------------------------------------------------------
(* Properties *)

\* The copy and the object it was made from stay apart: no write through
\* one of them, also after the copy's status was given the content of its
\* spec, changes what a reader of the other one sees, and the copy starts as
\* what was seen in the original.
CopiesApart ==
    [][IF copy = None
       THEN copy' # None => Seen(copy)' = Seen(original)
       ELSE \/ UNCHANGED Seen(original)
            \/ UNCHANGED Seen(copy)]_copyVars

=============================================================================
