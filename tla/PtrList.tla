------------------------------- MODULE PtrList -------------------------------
(***************************************************************************)
(* What upd_array_t promises: a list of pointers, whose operations either  *)
(* do what they are called for or, where they may fail, change nothing.    *)
(***************************************************************************)
EXTENDS Naturals, SequencesExt

CONSTANTS Ptr,      \* the pointers users store
          NULL      \* the null pointer, which they may store too

VARIABLES list,     \* the pointers, in order
          last      \* the last operation, what it returned and what it gave

ListInit == list = <<>> /\ last = [op |-> "init", ok |-> TRUE, got |-> NULL]

Refuse(op) == last' = [op |-> op, ok |-> FALSE, got |-> NULL] /\ UNCHANGED list

(* Resizing keeps a prefix and fills what is new with null pointers.       *)
ListResize ==
  \/ /\ list' = [j \in 1..Len(list') |->
                    IF j <= Len(list) THEN list[j] ELSE NULL]
     /\ last' = [op |-> "resize", ok |-> TRUE, got |-> NULL]
  \/ Refuse("resize")

ListInsert ==
  \/ \E x \in Ptr \cup {NULL}, i \in 1..Len(list) + 1 :
       /\ list' = InsertAt(list, i, x)
       /\ last' = [op |-> "insert", ok |-> TRUE, got |-> NULL]
  \/ Refuse("insert")

ListRemove ==
  \/ \E i \in DOMAIN list :
       /\ list' = RemoveAt(list, i)
       /\ last' = [op |-> "remove", ok |-> TRUE, got |-> list[i]]
  \/ list = <<>> /\ Refuse("remove")

ListTake(x) ==
  \/ /\ Contains(list, x)
     /\ list' = RemoveFirst(list, x)
     /\ last' = [op |-> "take", ok |-> TRUE, got |-> x]
  \/ ~Contains(list, x) /\ Refuse("take")

ListNext ==
  \/ ListResize
  \/ ListInsert
  \/ ListRemove
  \/ \E x \in Ptr \cup {NULL} : ListTake(x)

ListSpec == ListInit /\ [][ListNext]_<<list, last>>
=============================================================================
