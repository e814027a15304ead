------------------------------- MODULE Loops --------------------------------
(***************************************************************************)
(* The sequential loops: those of src/data-point.c, handle_read and the    *)
(* CSV conversions.  A behaviour is one call of one routine; the variables *)
(* of the others stay at 0.                                                *)
(***************************************************************************)
EXTENDS DataPointFind, DataPointMerge, DataPointDistinct, ReadPages, Csv

vars == << routine, points, n, pc, find_vars, merge_vars, distinct_vars, read_vars, csv_vars >>

Init ==
  \/ FindInit /\ NoMerge /\ NoDistinct /\ NoRead /\ NoCsv
  \/ MergeInit /\ NoFind /\ NoDistinct /\ NoRead /\ NoCsv /\ points = 0 /\ n = 0
  \/ DistinctInit /\ NoFind /\ NoMerge /\ NoRead /\ NoCsv
  \/ ReadInit /\ NoFind /\ NoMerge /\ NoDistinct /\ NoCsv
  \/ CsvInit /\ NoFind /\ NoMerge /\ NoDistinct /\ NoRead

Find_Step == FindNext /\ UNCHANGED << routine, merge_vars, distinct_vars, read_vars, csv_vars >>
Merge_Step == MergeNext /\ UNCHANGED << routine, points, n, find_vars, distinct_vars, read_vars, csv_vars >>
Distinct_Step == DistinctNext /\ UNCHANGED << routine, find_vars, merge_vars, read_vars, csv_vars >>
Read_Step == ReadNext /\ UNCHANGED << routine, find_vars, merge_vars, distinct_vars, csv_vars >>
Csv_Step == CsvNext /\ UNCHANGED << routine, find_vars, merge_vars, distinct_vars, read_vars >>

Next == Find_Step \/ Merge_Step \/ Distinct_Step \/ Read_Step \/ Csv_Step

(* Each routine runs to its end in one thread. *)
Spec == Init /\ [][Next]_vars /\ WF_vars(Next)

-----------------------------------------------------------------------------
(* The indices of the loops stay within their lists. *)
ListsTypeOK ==
  /\ routine = "find" => FindTypeOK
  /\ routine = "merge" => MergeTypeOK
  /\ routine = "distinct" => DistinctTypeOK
  /\ routine = "read" => ReadTypeOK
  /\ routine = "csv" => CsvTypeOK

(* Every call of every routine returns, or ends the program. *)
LoopsEnd == <>(pc \in { "done", "failed", "refused", "died" })
=============================================================================
