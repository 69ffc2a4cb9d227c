----------------------------- MODULE PlainTable -----------------------------
(***************************************************************************)
(* The promise of an encrypted column: a table of plain columns.  Workers  *)
(* load instances, change and save them the way the Django ORM does, and   *)
(* no encryption is to be seen.                                            *)
(***************************************************************************)
CONSTANTS
  Workers, Pks, Columns,
  Contents,   \* what a column can hold
  Null,       \* ... among it nothing
  NoPk        \* the worker holds no saved instance

VARIABLES
  present,    \* primary keys with a row
  row,        \* what their columns hold
  holding,    \* primary key of the instance each worker holds
  inst        \* what the columns of that instance hold

Blank == [col \in Columns |-> Null]

vars == <<present, row, holding, inst>>

Init ==
  /\ present \in SUBSET Pks
  /\ row \in [Pks -> [Columns -> Contents]]
  /\ holding = [w \in Workers |-> NoPk]
  /\ inst \in [Workers -> [Columns -> Contents]]

\* Model.objects.get(pk=p)
Load(w, p) ==
  /\ p \in present
  /\ holding' = [holding EXCEPT ![w] = p]
  /\ inst' = [inst EXCEPT ![w] = row[p]]
  /\ UNCHANGED <<present, row>>

\* instance.col = x
Assign(w, col, x) ==
  /\ holding[w] # NoPk
  /\ inst' = [inst EXCEPT ![w][col] = x]
  /\ UNCHANGED <<present, row, holding>>

\* Model.objects.create(**f) with the primary key p
Create(w, p, f) ==
  /\ p \notin present
  /\ present' = present \cup {p}
  /\ row' = [row EXCEPT ![p] = f]
  /\ holding' = [holding EXCEPT ![w] = p]
  /\ inst' = [inst EXCEPT ![w] = f]

\* instance.save(): an UPDATE of all columns, an INSERT if there is no such row.
Save(w) ==
  /\ holding[w] # NoPk
  /\ present' = present \cup {holding[w]}
  /\ row' = [row EXCEPT ![holding[w]] = inst[w]]
  /\ UNCHANGED <<holding, inst>>

\* instance.save(update_fields=[col]): an UPDATE, never an INSERT.
SaveField(w, col) ==
  /\ holding[w] \in present
  /\ row' = [row EXCEPT ![holding[w]][col] = inst[w][col]]
  /\ UNCHANGED <<present, holding, inst>>

\* instance.delete()
Delete(w) ==
  /\ holding[w] # NoPk
  /\ present' = present \ {holding[w]}
  /\ row' = [row EXCEPT ![holding[w]] = Blank]
  /\ holding' = [holding EXCEPT ![w] = NoPk]
  /\ inst' = [inst EXCEPT ![w] = Blank]

\* The worker ends its request, or is restarted.
Forget(w) ==
  /\ holding' = [holding EXCEPT ![w] = NoPk]
  /\ inst' = [inst EXCEPT ![w] = Blank]
  /\ UNCHANGED <<present, row>>

Next == \E w \in Workers :
  \/ \E p \in Pks : Load(w, p) \/ \E f \in [Columns -> Contents] : Create(w, p, f)
  \/ \E col \in Columns : SaveField(w, col) \/ \E x \in Contents : Assign(w, col, x)
  \/ Save(w) \/ Delete(w) \/ Forget(w)

Spec == Init /\ [][Next]_vars
=============================================================================
