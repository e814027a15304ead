----------------------------- MODULE LoopsProofs -----------------------------
(***************************************************************************)
(* The sequential loops are right for lists of any length.  Each of them   *)
(* has an inductive invariant of its own; a behaviour of Loops is a call   *)
(* of one of them, so that one of these invariants holds throughout.       *)
(***************************************************************************)
EXTENDS Loops, DataPointLemmas

-----------------------------------------------------------------------------
(* data_point_find: the inductive invariant is the loop invariant          *)
(* Bracketed, the types, and the fact that the list stays searchable.      *)
find_state == << points, n, pc, find_vars >>

FindInv ==
  /\ routine = "find"
  /\ FindTypeOK
  /\ Searchable(points, n, timestamp)
  /\ Bracketed
  /\ FindIsCorrect

(* What the variables are, in the words the provers need. *)
LEMMA FindTypes ==
  ASSUME FindTypeOK
  PROVE  /\ n \in Nat
         /\ timestamp \in Int
         /\ \A i \in 1 .. n : points[i].time \in Int
BY MaxCountAssumption, MaxTimeAssumption DEF FindTypeOK, Point, Time

(* A return of an offset that splits the list keeps the invariant. *)
LEMMA ReturnPreserves ==
  ASSUME FindInv, routine' = routine, NEW k \in 0 .. n, Return(k),
         \A i \in 1 .. k : points[i].time < timestamp,
         \A i \in k + 1 .. n : ~ (points[i].time < timestamp)
  PROVE  FindInv'
<1>1. k = Find(points, n, timestamp)
  BY FindTypes, FindUnique, Zenon DEF FindInv
<1>2. QED
  BY <1>1, Zenon DEF FindInv, Return, FindTypeOK, Bracketed, FindIsCorrect, Searchable

LEMMA FindInitInv == FindInit => FindInv
BY MaxCountAssumption DEF FindInit, FindInv, FindTypeOK, Bracketed, FindIsCorrect

LEMMA FindNextInv ==
  ASSUME FindInv, routine' = routine, FindNext \/ UNCHANGED find_state
  PROVE  FindInv'
<1> /\ n \in Nat
    /\ timestamp \in Int
    /\ \A i \in 1 .. n : points[i].time \in Int
  BY FindTypes, Zenon DEF FindInv
<1>1. CASE FindStart
  <2>1. CASE n = 0
    BY <1>1, <2>1, ReturnPreserves DEF FindStart
  <2>2. CASE n # 0 /\ timestamp < points[1].time
    <3>1. \A i \in 1 .. n : ~ (points[i].time < timestamp)
      BY <2>2 DEF FindInv, Searchable
    <3>2. QED
      BY <1>1, <2>2, <3>1, ReturnPreserves DEF FindStart
  <2>3. CASE n # 0 /\ ~ (timestamp < points[1].time) /\ timestamp > points[n].time
    <3>1. \A i \in 1 .. n : points[i].time < timestamp
      BY <2>3 DEF FindInv, Searchable
    <3>2. QED
      BY <1>1, <2>3, <3>1, ReturnPreserves DEF FindStart
  <2>4. CASE n # 0 /\ ~ (timestamp < points[1].time) /\ ~ (timestamp > points[n].time)
    BY <1>1, <2>4, Zenon DEF FindStart, FindInv, FindTypeOK, Bracketed, FindIsCorrect, Searchable
  <2>5. QED
    BY <2>1, <2>2, <2>3, <2>4, Zenon
<1>2. CASE FindIterate
  <2>1. Mid \in left .. right - 1 /\ Mid + 1 \in 1 .. n
    BY <1>2 DEF FindIterate, Mid, FindInv, FindTypeOK
  <2>2. CASE timestamp < points[Mid + 1].time /\ Narrow(left, Mid)
    <3>1. \A i \in Mid + 1 .. n : points[i].time > timestamp
      BY <2>1, <2>2 DEF FindInv, Searchable
    <3>2. QED
      BY <1>2, <2>1, <2>2, <3>1
         DEF FindIterate, Narrow, FindInv, FindTypeOK, Bracketed, FindIsCorrect, Searchable
  <2>3. CASE timestamp > points[Mid + 1].time /\ Narrow(Mid + 1, right)
    <3>1. \A i \in 1 .. Mid + 1 : points[i].time < timestamp
      BY <2>1, <2>3 DEF FindInv, Searchable
    <3>2. QED
      BY <1>2, <2>1, <2>3, <3>1
         DEF FindIterate, Narrow, FindInv, FindTypeOK, Bracketed, FindIsCorrect, Searchable
  <2>4. CASE timestamp = points[Mid + 1].time /\ Return(Mid)
    <3>1. /\ \A i \in 1 .. Mid : points[i].time < timestamp
          /\ \A i \in Mid + 1 .. n : ~ (points[i].time < timestamp)
      BY <2>1, <2>4, SMTT(30) DEF FindInv, Searchable, FindTypeOK
    <3>2. Mid \in 0 .. n
      BY <2>1 DEF FindInv, FindTypeOK
    <3>3. QED
      BY <2>4, <3>1, <3>2, ReturnPreserves, Zenon
  <2>5. QED
    BY <1>2, <2>2, <2>3, <2>4, Zenon DEF FindIterate
<1>3. CASE Exhausted
  <2>1. /\ left = right /\ left \in 0 .. n
        /\ \A i \in left + 1 .. n : ~ (points[i].time < timestamp)
    BY <1>3 DEF Exhausted, FindInv, Bracketed, FindTypeOK
  <2>2. QED
    BY <1>3, <2>1, ReturnPreserves, Zenon DEF Exhausted, FindInv, Bracketed
<1>4. CASE UNCHANGED find_state
  BY <1>4, Zenon DEF find_state, find_vars, FindInv, FindTypeOK, Bracketed, FindIsCorrect, Searchable
<1>5. QED
  BY <1>1, <1>2, <1>3, <1>4, Zenon DEF FindNext

-----------------------------------------------------------------------------
(* data_point_merge: MergedSoFar, with the order of the two inputs, is     *)
(* inductive.                                                              *)
merge_state == << pc, merge_vars >>

MergeInv ==
  /\ routine = "merge"
  /\ MergeTypeOK
  /\ Ascending(src, src_count)
  /\ Ascending(dst, dst_count)
  /\ MergedSoFar
  /\ MergeIsCorrect

-----------------------------------------------------------------------------
(* How writing one more point over one more point changes Overwrite.       *)
LEMMA OverwriteOld ==
  ASSUME NEW old, NEW new, NEW p, p.time \notin Times(new)
  PROVE  Overwrite(old \cup {p}, new) = Overwrite(old, new) \cup {p}
BY Zenon DEF Overwrite

LEMMA OverwriteNew ==
  ASSUME NEW old, NEW new, NEW p, \A q \in old : q.time # p.time
  PROVE  Overwrite(old, new \cup {p}) = Overwrite(old, new) \cup {p}
<1>1. Times(new \cup {p}) = Times(new) \cup {p.time}
  BY Zenon DEF Times
<1>2. QED
  BY <1>1, Zenon DEF Overwrite

LEMMA OverwriteBoth ==
  ASSUME NEW old, NEW new, NEW p, NEW q, q.time = p.time,
         \A r \in old : r.time # p.time
  PROVE  Overwrite(old \cup {q}, new \cup {p}) = Overwrite(old, new) \cup {p}
<1>1. Times(new \cup {p}) = Times(new) \cup {p.time}
  BY Zenon DEF Times
<1>2. QED
  BY <1>1, Zenon DEF Overwrite

LEMMA Suffix ==
  \A b \in Nat, c \in Nat : \A a \in b .. c : \A j \in a + 1 .. c : j \in b + 1 .. c
OBVIOUS

LEMMA MergeTypes ==
  ASSUME MergeTypeOK
  PROVE  /\ src_count \in Nat /\ dst_count \in Nat
         /\ src_pos \in Nat /\ dst_pos \in Nat
         /\ \A i \in 1 .. src_count : src[i] \in Point /\ src[i].time \in Int
         /\ \A i \in 1 .. dst_count : dst[i] \in Point /\ dst[i].time \in Int
         /\ \A i \in 1 .. processed_count : buffer[i] \in Point /\ buffer[i].time \in Int
BY MaxCountAssumption, MaxTimeAssumption, SMTT(30) DEF MergeTypeOK, Point, Time

(* A point behind everything merged so far extends the result. *)
LEMMA EmitExtends ==
  ASSUME MergeTypeOK, NEW p \in Point, Emit(p), Ascending(buffer, processed_count),
         \A i \in 1 .. processed_count : buffer[i].time < p.time
  PROVE  /\ buffer' \in [ 1 .. processed_count' -> Point ]
         /\ processed_count' = processed_count + 1
         /\ buffer'[processed_count'] = p
         /\ \A i \in 1 .. processed_count : buffer'[i] = buffer[i]
         /\ Ascending(buffer', processed_count')
         /\ Elems(buffer', processed_count') = Elems(buffer, processed_count) \cup {p}
<1>1. processed_count \in Nat /\ processed_count' = processed_count + 1
  BY Zenon DEF MergeTypeOK, Emit
<1>2. /\ buffer' \in [ 1 .. processed_count' -> Point ]
      /\ buffer'[processed_count'] = p
      /\ \A i \in 1 .. processed_count : buffer'[i] = buffer[i]
  BY <1>1 DEF MergeTypeOK, Emit
<1>3. Ascending(buffer', processed_count')
  BY <1>1, <1>2 DEF Ascending
<1>4. Elems(buffer', processed_count') = Elems(buffer, processed_count) \cup {p}
  <2>1. Elems(buffer', processed_count) = Elems(buffer, processed_count)
    BY <1>2, Zenon DEF Elems
  <2>2. QED
    BY <1>1, <1>2, <2>1, OneMore, Zenon
<1>5. QED
  BY <1>1, <1>2, <1>3, <1>4, Zenon

(* Every consumed point of src is before what neither list has consumed,   *)
(* and so is every consumed point of dst.                                  *)
LEMMA ConsumedBefore ==
  ASSUME MergeInv
  PROVE  /\ \A p \in Elems(src, src_pos) :
              \A j \in dst_pos + 1 .. dst_count : p.time < dst[j].time
         /\ \A p \in Elems(dst, dst_pos) :
              \A j \in src_pos + 1 .. src_count : p.time < src[j].time
<1> /\ src_count \in Nat /\ dst_count \in Nat
    /\ src_pos \in 0 .. src_count /\ dst_pos \in 0 .. dst_count
    /\ \A i \in 1 .. src_count : src[i].time \in Int
    /\ \A i \in 1 .. dst_count : dst[i].time \in Int
  BY MergeTypes, Zenon DEF MergeInv, MergeTypeOK
<1>1. Elems(buffer, processed_count) = Overwrite(Elems(dst, dst_pos), Elems(src, src_pos))
  BY Zenon DEF MergeInv, MergedSoFar
<1>2. \A p \in Elems(buffer, processed_count) :
        /\ \A j \in src_pos + 1 .. src_count : p.time < src[j].time
        /\ \A j \in dst_pos + 1 .. dst_count : p.time < dst[j].time
  BY Zenon DEF Elems, MergeInv, MergedSoFar
<1>3. \A p \in Elems(src, src_pos) : p \in Elems(buffer, processed_count)
  BY <1>1, Zenon DEF Overwrite
<1>4. ASSUME NEW p \in Elems(dst, dst_pos), NEW j \in src_pos + 1 .. src_count
      PROVE  p.time < src[j].time
  <2>1. CASE p \in Elems(buffer, processed_count)
    BY <2>1, <1>2, Zenon
  <2>2. CASE p \notin Elems(buffer, processed_count)
    <3>1. p.time \in Times(Elems(src, src_pos))
      BY <2>2, <1>1, Zenon DEF Overwrite
    <3>2. PICK i \in 1 .. src_pos : p.time = src[i].time
      BY <3>1, Zenon DEF Times, Elems
    <3>3. QED
      BY <3>2 DEF MergeInv, Ascending
  <2>3. QED
    BY <2>1, <2>2, Zenon
<1>5. QED
  BY <1>2, <1>3, <1>4, Zenon

-----------------------------------------------------------------------------
LEMMA MergeInitInv == MergeInit => MergeInv
<1> SUFFICES ASSUME MergeInit PROVE MergeInv
  BY Zenon
<1>1. MergeTypeOK
  BY MaxCountAssumption DEF MergeInit, MergeTypeOK
<1>2. MergedSoFar
  BY DEF MergeInit, MergedSoFar, Ascending, Elems, Overwrite
<1>3. QED
  BY <1>1, <1>2, Zenon DEF MergeInit, MergeInv, MergeIsCorrect

(* The invariant holds after a step that emits p, the only new point among *)
(* those consumed so far and before all the others.                        *)
LEMMA EmitPreserves ==
  ASSUME MergeInv, routine' = routine, pc = "loop", NEW p \in Point, Emit(p),
         src_pos' \in src_pos .. src_count, dst_pos' \in dst_pos .. dst_count,
         duplicated_count' \in Nat,
         processed_count + 1 = src_pos' + dst_pos' - duplicated_count',
         \A i \in 1 .. processed_count : buffer[i].time < p.time,
         \A j \in src_pos' + 1 .. src_count : p.time < src[j].time,
         \A j \in dst_pos' + 1 .. dst_count : p.time < dst[j].time,
         Overwrite(Elems(dst, dst_pos'), Elems(src, src_pos'))
           = Overwrite(Elems(dst, dst_pos), Elems(src, src_pos)) \cup {p}
  PROVE  MergeInv'
<1>1. /\ buffer' \in [ 1 .. processed_count' -> Point ]
      /\ processed_count' = processed_count + 1
      /\ buffer'[processed_count'] = p
      /\ \A i \in 1 .. processed_count : buffer'[i] = buffer[i]
      /\ Ascending(buffer', processed_count')
      /\ Elems(buffer', processed_count') = Elems(buffer, processed_count) \cup {p}
  BY EmitExtends, Zenon DEF MergeInv, MergedSoFar
<1>2. UNCHANGED << src, src_count, dst, dst_count, pc >>
  BY Zenon DEF Emit, merge_args
<1>3. MergeTypeOK'
  BY <1>1, <1>2 DEF MergeInv, MergeTypeOK
<1>4. Ascending(src', src_count') /\ Ascending(dst', dst_count')
  BY <1>2, Zenon DEF MergeInv
<1>5. \A i \in 1 .. processed_count' :
        /\ \A j \in src_pos' + 1 .. src_count : buffer'[i].time < src[j].time
        /\ \A j \in dst_pos' + 1 .. dst_count : buffer'[i].time < dst[j].time
  <2>1. /\ processed_count \in Nat /\ processed_count' = processed_count + 1
        /\ src_pos \in Nat /\ dst_pos \in Nat
        /\ src_count \in Nat /\ dst_count \in Nat
    BY <1>1, MergeTypes, Zenon DEF MergeInv, MergeTypeOK
  <2>2. SUFFICES ASSUME NEW i \in 1 .. processed_count'
                 PROVE  /\ \A j \in src_pos' + 1 .. src_count : buffer'[i].time < src[j].time
                        /\ \A j \in dst_pos' + 1 .. dst_count : buffer'[i].time < dst[j].time
    BY Zenon
  <2>3. CASE i = processed_count'
    BY <1>1, <2>3, Zenon
  <2>4. CASE i \in 1 .. processed_count
    <3>1. /\ \A j \in src_pos + 1 .. src_count : buffer[i].time < src[j].time
          /\ \A j \in dst_pos + 1 .. dst_count : buffer[i].time < dst[j].time
      BY <2>4, Zenon DEF MergeInv, MergedSoFar
    <3>2. buffer'[i] = buffer[i]
      BY <1>1, <2>4, Zenon
    <3>3. /\ \A j \in src_pos' + 1 .. src_count : j \in src_pos + 1 .. src_count
          /\ \A j \in dst_pos' + 1 .. dst_count : j \in dst_pos + 1 .. dst_count
      BY <2>1, Suffix, Zenon
    <3>4. QED
      BY <3>1, <3>2, <3>3, Zenon
  <2>5. i = processed_count' \/ i \in 1 .. processed_count
    BY <2>1
  <2>6. QED
    BY <2>3, <2>4, <2>5, Zenon
<1>6. MergedSoFar'
  <2>1. Elems(buffer', processed_count') = Overwrite(Elems(dst', dst_pos'), Elems(src', src_pos'))
    BY <1>1, <1>2, Zenon DEF MergeInv, MergedSoFar
  <2>2. processed_count' = src_pos' + dst_pos' - duplicated_count'
    BY <1>1, Zenon
  <2>3. QED
    BY <1>1, <1>2, <1>5, <2>1, <2>2, Zenon DEF MergedSoFar
<1>7. MergeIsCorrect'
  BY <1>2, Zenon DEF MergeIsCorrect
<1>8. QED
  BY <1>3, <1>4, <1>6, <1>7, Zenon DEF MergeInv

(* When the loop ends both lists are consumed. *)
LEMMA MergeFinishPreserves ==
  ASSUME MergeInv, routine' = routine, MergeFinish
  PROVE  MergeInv'
<1>1. src_pos = src_count /\ dst_pos = dst_count
  BY MergeTypes DEF MergeInv, MergeTypeOK, MergeFinish, Unfinished, MergedSoFar
<1>2. buffer = Merge(src, src_count, dst, dst_count)
  <2> DEFINE S == Elems(buffer, processed_count)
  <2>1. S = Overwrite(Elems(dst, dst_count), Elems(src, src_count))
    BY <1>1, Zenon DEF MergeInv, MergedSoFar
  <2>2. processed_count \in Nat /\ Ascending(buffer, processed_count)
    BY Zenon DEF MergeInv, MergedSoFar, MergeTypeOK
  <2>3. \A i \in 1 .. processed_count : SortPoints(S)[i] = buffer[i]
    BY <2>2, MergeTypes, AscendingUnique, Zenon DEF MergeInv
  <2>4. Cardinality(S) = processed_count
    BY <2>2, MergeTypes, AscendingElems, Zenon DEF MergeInv
  <2>5. SortPoints(S) = [ i \in 1 .. processed_count |-> SortPoints(S)[i] ]
    BY <2>4 DEF SortPoints
  <2>6. buffer = [ i \in 1 .. processed_count |-> buffer[i] ]
    BY Zenon DEF MergeInv, MergeTypeOK
  <2> HIDE DEF S
  <2>7. buffer = SortPoints(S)
    BY <2>3, <2>5, <2>6, Zenon
  <2>8. QED
    BY <2>1, <2>7, Zenon DEF Merge
<1>3. QED
  BY <1>2, Zenon DEF MergeInv, MergeFinish, merge_args, MergeTypeOK, MergedSoFar, MergeIsCorrect

LEMMA MergeNextInv ==
  ASSUME MergeInv, routine' = routine, MergeNext \/ UNCHANGED merge_state
  PROVE  MergeInv'
<1> /\ src_count \in Nat /\ dst_count \in Nat
    /\ src_pos \in 0 .. src_count /\ dst_pos \in 0 .. dst_count
    /\ processed_count \in Nat /\ duplicated_count \in Nat
    /\ processed_count = src_pos + dst_pos - duplicated_count
    /\ \A i \in 1 .. src_count : src[i] \in Point /\ src[i].time \in Int
    /\ \A i \in 1 .. dst_count : dst[i] \in Point /\ dst[i].time \in Int
  BY MergeTypes, Zenon DEF MergeInv, MergeTypeOK, MergedSoFar
<1>1. CASE TakeDst
  <2> DEFINE p == dst[dst_pos + 1]
  <2>1. dst_pos < dst_count /\ p \in Point
    BY <1>1 DEF TakeDst, Unfinished
  <2>2. \A i \in 1 .. processed_count : buffer[i].time < p.time
    BY <2>1 DEF MergeInv, MergedSoFar
  <2>3. /\ \A j \in src_pos + 1 .. src_count : p.time < src[j].time
        /\ \A j \in dst_pos + 1 + 1 .. dst_count : p.time < dst[j].time
    BY <1>1, <2>1 DEF TakeDst, MergeInv, Ascending
  <2>4. p.time \notin Times(Elems(src, src_pos))
    BY <2>1, ConsumedBefore DEF Times
  <2>5. Overwrite(Elems(dst, dst_pos + 1), Elems(src, src_pos))
          = Overwrite(Elems(dst, dst_pos), Elems(src, src_pos)) \cup {p}
    <3>1. Elems(dst, dst_pos + 1) = Elems(dst, dst_pos) \cup {p}
      BY OneMore
    <3> HIDE DEF p
    <3>2. QED
      BY <2>4, <3>1, OverwriteOld
  <2>6. /\ pc = "loop" /\ Emit(p)
        /\ src_pos' = src_pos /\ dst_pos' = dst_pos + 1
        /\ duplicated_count' = duplicated_count
    BY <1>1, Zenon DEF TakeDst
  <2> HIDE DEF p
  <2>7. QED
    BY <2>1, <2>2, <2>3, <2>5, <2>6, EmitPreserves
<1>2. CASE TakeSrc
  <2> DEFINE p == src[src_pos + 1]
  <2>1. src_pos < src_count /\ p \in Point
    BY <1>2 DEF TakeSrc
  <2>2. \A i \in 1 .. processed_count : buffer[i].time < p.time
    BY <2>1 DEF MergeInv, MergedSoFar
  <2>3. /\ \A j \in src_pos + 1 + 1 .. src_count : p.time < src[j].time
        /\ \A j \in dst_pos + 1 .. dst_count : p.time < dst[j].time
    BY <1>2, <2>1 DEF TakeSrc, MergeInv, Ascending
  <2>4. \A q \in Elems(dst, dst_pos) : q.time # p.time
    BY <2>1, ConsumedBefore DEF Elems
  <2>5. Overwrite(Elems(dst, dst_pos), Elems(src, src_pos + 1))
          = Overwrite(Elems(dst, dst_pos), Elems(src, src_pos)) \cup {p}
    <3>1. Elems(src, src_pos + 1) = Elems(src, src_pos) \cup {p}
      BY OneMore
    <3> HIDE DEF p
    <3>2. QED
      BY <2>4, <3>1, OverwriteNew
  <2>6. /\ pc = "loop" /\ Emit(p)
        /\ src_pos' = src_pos + 1 /\ dst_pos' = dst_pos
        /\ duplicated_count' = duplicated_count
    BY <1>2, Zenon DEF TakeSrc
  <2> HIDE DEF p
  <2>7. QED
    BY <2>1, <2>2, <2>3, <2>5, <2>6, EmitPreserves
<1>3. CASE TakeBoth
  <2> DEFINE p == src[src_pos + 1]
             q == dst[dst_pos + 1]
  <2>1. src_pos < src_count /\ dst_pos < dst_count /\ p \in Point /\ p.time = q.time
    BY <1>3 DEF TakeBoth
  <2>2. \A i \in 1 .. processed_count : buffer[i].time < p.time
    BY <2>1 DEF MergeInv, MergedSoFar
  <2>3. /\ \A j \in src_pos + 1 + 1 .. src_count : p.time < src[j].time
        /\ \A j \in dst_pos + 1 + 1 .. dst_count : q.time < dst[j].time
    BY <2>1 DEF MergeInv, Ascending
  <2>4. \A r \in Elems(dst, dst_pos) : r.time # p.time
    BY <2>1, ConsumedBefore DEF Elems
  <2>5. Overwrite(Elems(dst, dst_pos + 1), Elems(src, src_pos + 1))
          = Overwrite(Elems(dst, dst_pos), Elems(src, src_pos)) \cup {p}
    <3>1. /\ Elems(src, src_pos + 1) = Elems(src, src_pos) \cup {p}
          /\ Elems(dst, dst_pos + 1) = Elems(dst, dst_pos) \cup {q}
      BY OneMore
    <3> HIDE DEF p, q
    <3>2. QED
      BY <2>1, <2>4, <3>1, OverwriteBoth
  <2>6. /\ pc = "loop" /\ Emit(p)
        /\ src_pos' = src_pos + 1 /\ dst_pos' = dst_pos + 1
        /\ duplicated_count' = duplicated_count + 1
    BY <1>3, Zenon DEF TakeBoth
  <2>7. \A j \in dst_pos + 1 + 1 .. dst_count : p.time < dst[j].time
    BY <2>1, <2>3, Zenon
  <2> HIDE DEF p, q
  <2>8. QED
    BY <2>1, <2>2, <2>3, <2>5, <2>6, <2>7, EmitPreserves
<1>4. CASE MergeFinish
  BY <1>4, MergeFinishPreserves, Zenon
<1>5. CASE UNCHANGED merge_state
  BY <1>5, Zenon DEF merge_state, merge_vars, merge_args, MergeInv, MergeTypeOK, MergedSoFar, MergeIsCorrect
<1>6. QED
  BY <1>1, <1>2, <1>3, <1>4, <1>5, Zenon DEF MergeNext

-----------------------------------------------------------------------------
Sorted == \A i, j \in 1 .. n : i < j => sorted[i].time <= sorted[j].time

distinct_state == << points, n, pc, distinct_vars >>

DistinctInv == routine = "distinct" /\ DistinctTypeOK /\ Sorted /\ KeptSoFar /\ PreparedIsCorrect

LEMMA DistinctTypes ==
  ASSUME DistinctTypeOK
  PROVE  /\ n \in Nat /\ curr \in Nat /\ tail \in Nat
         /\ curr <= n /\ tail <= n
         /\ \A i \in 1 .. n : sorted[i].time \in Nat
         /\ \A i \in 1 .. n : points[i].time \in Nat
BY MaxCountAssumption, MaxTimeAssumption DEF DistinctTypeOK, Point, Time

LEMMA DistinctInitInv == DistinctInit => DistinctInv
<1> SUFFICES ASSUME DistinctInit PROVE DistinctInv
  BY Zenon
<1>1. DistinctTypeOK /\ Sorted
  BY MaxCountAssumption DEF DistinctInit, DistinctTypeOK, Sorted
<1>2. KeptSoFar
  BY DEF DistinctInit, KeptSoFar, Ascending, Elems, Times
<1>3. QED
  BY <1>1, <1>2, Zenon DEF DistinctInit, DistinctInv, PreparedIsCorrect

(* No kept point is behind the point being visited. *)
LEMMA KeptNotBehind ==
  ASSUME DistinctInv, curr < n
  PROVE  /\ points[curr + 1] = sorted[curr + 1]
         /\ \A i \in 1 .. tail : points[i].time <= sorted[curr + 1].time
<1> USE DistinctTypes DEF DistinctInv
<1>1. points[curr + 1] = sorted[curr + 1]
  BY DEF KeptSoFar
<1>2. \A i \in 1 .. tail : \E j \in 1 .. curr : points[i] = sorted[j]
  BY Zenon DEF KeptSoFar, Elems
<1>3. QED
  BY <1>1, <1>2 DEF Sorted

LEMMA VisitPreserves ==
  ASSUME DistinctInv, routine' = routine, Visit
  PROVE  DistinctInv'
<1> DEFINE p == sorted[curr + 1]
<1>1. /\ n \in Nat /\ curr \in Nat /\ tail \in Nat
      /\ curr < n /\ tail <= curr
      /\ \A i \in 1 .. n : points[i].time \in Nat
      /\ p.time \in Nat /\ p \in Point
  BY DistinctTypes DEF DistinctInv, Visit, KeptSoFar, DistinctTypeOK
<1>2. points[curr + 1] = p /\ \A i \in 1 .. tail : points[i].time <= p.time
  BY KeptNotBehind, <1>1, Zenon
<1>3. /\ curr' = curr + 1
      /\ UNCHANGED << sorted, n, pc >>
      /\ pc = "loop"
  BY Zenon DEF Visit
<1>4. Sorted' /\ PreparedIsCorrect'
  BY <1>3, Zenon DEF DistinctInv, Sorted, PreparedIsCorrect
<1>5. /\ Elems(sorted', curr') = Elems(sorted, curr) \cup {p}
      /\ Times(Elems(sorted', curr')) = Times(Elems(sorted, curr)) \cup {p.time}
  BY <1>1, <1>3, OneMore, OneMoreTime, Zenon
<1>6. CASE p.time = 0
  <2>1. UNCHANGED << tail, points >>
    BY <1>6, <1>2, Zenon DEF Visit
  <2>2. DistinctTypeOK'
    BY <1>1, <1>3, <2>1 DEF DistinctInv, DistinctTypeOK
  <2>3. KeptSoFar'
    BY <1>1, <1>3, <1>5, <1>6, <2>1 DEF DistinctInv, KeptSoFar
  <2>4. QED
    BY <2>2, <2>3, <1>4, Zenon DEF DistinctInv
<1>7. CASE p.time # 0 /\ (tail = 0 \/ points[tail].time < p.time)
  <2>1. tail' = tail + 1 /\ points' = [ points EXCEPT ![tail + 1] = p ]
    BY <1>7, <1>1, <1>2 DEF Visit, Target
  <2>2. DistinctTypeOK'
    BY <1>1, <1>3, <2>1 DEF DistinctInv, DistinctTypeOK
  <2>3. /\ \A i \in 1 .. n : i # tail + 1 => points'[i] = points[i]
        /\ points'[tail + 1] = p
    BY <1>1, <2>1 DEF DistinctInv, DistinctTypeOK
  <2>4. \A i \in curr' + 1 .. n' : points'[i] = sorted'[i]
    BY <1>1, <1>3, <2>3 DEF DistinctInv, KeptSoFar
  <2>5. \A i \in 1 .. tail : points[i].time < p.time
    BY <1>1, <1>7 DEF DistinctInv, KeptSoFar, Ascending
  <2>6. Ascending(points', tail')
    BY <1>1, <2>1, <2>3, <2>5 DEF DistinctInv, KeptSoFar, Ascending
  <2>7. Elems(points', tail) = Elems(points, tail)
    BY <1>1, <2>3 DEF Elems
  <2>8. /\ Elems(points', tail') = Elems(points, tail) \cup {p}
        /\ Times(Elems(points', tail')) = Times(Elems(points, tail)) \cup {p.time}
    <3>1. /\ Elems(points', tail + 1) = Elems(points', tail) \cup {points'[tail + 1]}
          /\ Times(Elems(points', tail + 1))
               = Times(Elems(points', tail)) \cup {points'[tail + 1].time}
      BY <1>1, OneMore, OneMoreTime, Zenon
    <3> HIDE DEF p
    <3>2. QED
      BY <2>1, <2>3, <2>7, <3>1, Zenon
  <2>9. KeptSoFar'
    <3>1. Elems(points', tail') \subseteq Elems(sorted', curr')
      BY <1>5, <2>8, Zenon DEF DistinctInv, KeptSoFar
    <3>2. Times(Elems(points', tail')) = Times(Elems(sorted', curr')) \ {0}
      BY <1>5, <1>7, <2>8, Zenon DEF DistinctInv, KeptSoFar
    <3>3. tail' <= curr'
      BY <1>1, <1>3, <2>1
    <3>4. QED
      BY <2>4, <2>6, <3>1, <3>2, <3>3, Zenon DEF KeptSoFar
  <2>10. QED
    BY <2>2, <2>9, <1>4, Zenon DEF DistinctInv
<1>8. CASE p.time # 0 /\ tail # 0 /\ ~ (points[tail].time < p.time)
  <2>1. tail' = tail /\ points' = [ points EXCEPT ![tail] = p ]
    BY <1>8, <1>1, <1>2, Zenon DEF Visit, Target
  <2>2. DistinctTypeOK'
    BY <1>1, <1>3, <1>8, <2>1 DEF DistinctInv, DistinctTypeOK
  <2>3. /\ \A i \in 1 .. n : i # tail => points'[i] = points[i]
        /\ points'[tail] = p
        /\ points[tail].time = p.time
    BY <1>1, <1>2, <1>8, <2>1 DEF DistinctInv, DistinctTypeOK
  <2>4. \A i \in curr' + 1 .. n' : points'[i] = sorted'[i]
    BY <1>1, <1>3, <2>3 DEF DistinctInv, KeptSoFar
  <2>5. \A i \in 1 .. tail : points'[i].time = points[i].time
    BY <1>1, <2>3
  <2>6. Ascending(points', tail')
    BY <1>1, <2>1, <2>5, Zenon DEF DistinctInv, KeptSoFar, Ascending
  <2>7. Elems(points', tail') \subseteq Elems(points, tail) \cup {p}
    BY <1>1, <2>1, <2>3 DEF Elems
  <2>8. Times(Elems(points', tail')) = Times(Elems(points, tail))
    <3>1. Times(Elems(points', tail)) = Times(Elems(points, tail))
      BY <2>5, SameTimes, Zenon
    <3>2. QED
      BY <2>1, <3>1, Zenon
  <2>9. p.time \in Times(Elems(points, tail))
    BY <1>1, <1>8, <2>3 DEF Times, Elems
  <2>10. KeptSoFar'
    <3>1. Elems(points', tail') \subseteq Elems(sorted', curr')
      BY <1>5, <2>7, Zenon DEF DistinctInv, KeptSoFar
    <3>2. Times(Elems(points', tail')) = Times(Elems(sorted', curr')) \ {0}
      BY <1>5, <2>8, <2>9, Zenon DEF DistinctInv, KeptSoFar
    <3>3. tail' <= curr'
      BY <1>1, <1>3, <2>1
    <3>4. QED
      BY <2>4, <2>6, <3>1, <3>2, <3>3, Zenon DEF KeptSoFar
  <2>11. QED
    BY <2>2, <2>10, <1>4, Zenon DEF DistinctInv
<1>9. QED
  BY <1>6, <1>7, <1>8, Zenon

LEMMA DistinctFinishPreserves ==
  ASSUME DistinctInv, routine' = routine, DistinctFinish
  PROVE  DistinctInv'
<1> DEFINE S == Elems(points, tail)
<1>1. tail \in Nat /\ Ascending(points, tail) /\ \A i \in 1 .. tail : points[i].time \in Int
  BY DistinctTypes DEF DistinctInv, KeptSoFar
<1>2. Cardinality(S) = tail /\ DistinctTimes(S)
  BY <1>1, AscendingElems, Zenon
<1>3. \A i \in 1 .. tail : SortPoints(S)[i] = points[i]
  BY <1>1, AscendingUnique, Zenon
<1>4. S \in PrepareInput(Elems(sorted, n))
  BY <1>2, Zenon DEF DistinctInv, KeptSoFar, DistinctFinish, PrepareInput
<1>5. PreparedIsCorrect'
  <2> HIDE DEF S
  <2> QED BY <1>2, <1>3, <1>4, Zenon DEF PreparedIsCorrect, DistinctFinish
<1>6. QED
  BY <1>5, Zenon DEF DistinctInv, DistinctFinish, DistinctTypeOK, Sorted, KeptSoFar

LEMMA DistinctNextInv ==
  ASSUME DistinctInv, routine' = routine, DistinctNext \/ UNCHANGED distinct_state
  PROVE  DistinctInv'
<1>1. ASSUME DistinctInv, UNCHANGED distinct_state PROVE DistinctInv'
  BY <1>1, Zenon DEF distinct_state, distinct_vars, DistinctInv, DistinctTypeOK, Sorted, KeptSoFar, PreparedIsCorrect
<1>2. QED
  BY <1>1, VisitPreserves, DistinctFinishPreserves, Zenon DEF DistinctNext

-----------------------------------------------------------------------------
(* handle_read: SentSoFar is inductive once the list is known to be        *)
(* ascending; that the packets are full but for the last one follows from  *)
(* how many were sent while points are left.                               *)
read_state == << points, n, pc, read_vars >>

ReadCall ==
  /\ n \in 0 .. MaxCount /\ points \in [ 1 .. n -> Point ] /\ Ascending(points, n)
  /\ known \in BOOLEAN /\ (n > 0 => known)
  /\ first \in Time /\ end \in Time
  /\ points_per_packet \in 1 .. MaxPerPacket

EndOffset == Find(points, n, end)

PacketsSoFar ==
  /\ pc = "start" => begin = first /\ sent_count = 0 /\ packets = 0
  /\ pc = "loop" =>
       /\ first > end => begin = first
       /\ sent_count <= packets * points_per_packet
       /\ (packets - 1) * points_per_packet < sent_count
       /\ begin <= end /\ Offset < EndOffset => sent_count = packets * points_per_packet
  /\ pc = "done" =>
       /\ sent_count = IF first <= end THEN EndOffset - Find(points, n, first) ELSE 0
       /\ (packets - 1) * points_per_packet >= sent_count
       /\ (packets - 2) * points_per_packet < sent_count

ReadInv == routine = "read" /\ ReadTypeOK /\ ReadCall /\ SentSoFar /\ PacketsSoFar

(* What the variables are, in the words the provers need. *)
LEMMA ReadTypes ==
  ASSUME ReadTypeOK, ReadCall
  PROVE  /\ n \in Nat /\ \A i \in 1 .. n : points[i].time \in Int /\ points[i].time \in Time
         /\ first \in Int /\ end \in Int /\ begin \in Int
         /\ points_per_packet \in Nat \ {0} /\ packets \in Nat /\ sent_count \in Nat
BY MaxCountAssumption, MaxTimeAssumption, MaxPerPacketAssumption DEF ReadTypeOK, ReadCall, Point, Time

(* The points between two times lie between the offsets of the two. *)
LEMMA FindOrdered ==
  ASSUME NEW m \in Nat, NEW list, \A i \in 1 .. m : list[i].time \in Int, Ascending(list, m),
         NEW b \in Int, NEW e \in Int, b <= e
  PROVE  /\ Find(list, m, b) \in 0 .. m
         /\ Find(list, m, e) \in Find(list, m, b) .. m
         /\ \A i \in 1 .. m : (b <= list[i].time /\ list[i].time < e)
                                <=> i \in Find(list, m, b) + 1 .. Find(list, m, e)
<1> DEFINE O == Find(list, m, b)
           E == Find(list, m, e)
<1>1. \A i, j \in 1 .. m : i < j => list[i].time <= list[j].time
  BY DEF Ascending
<1>2. /\ O \in 0 .. m
      /\ \A i \in 1 .. O : list[i].time < b
      /\ \A i \in O + 1 .. m : ~ (list[i].time < b)
  BY <1>1, FindSplits, Zenon
<1>3. /\ E \in 0 .. m
      /\ \A i \in 1 .. E : list[i].time < e
      /\ \A i \in E + 1 .. m : ~ (list[i].time < e)
  BY <1>1, FindSplits, Zenon
<1> HIDE DEF O, E
<1>4. O <= E
  <2> SUFFICES ASSUME O > E PROVE FALSE
    BY <1>2, <1>3
  <2>1. O \in 1 .. O /\ O \in E + 1 .. m /\ O \in 1 .. m
    BY <1>2, <1>3
  <2> QED
    BY <1>2, <1>3, <2>1
<1>5. ASSUME NEW i \in 1 .. m
      PROVE  (b <= list[i].time /\ list[i].time < e) <=> i \in O + 1 .. E
  BY <1>2, <1>3, <1>4
<1> QED
  BY <1>2, <1>3, <1>4, <1>5 DEF O, E

(* The point behind a full packet is where the next one begins. *)
LEMMA FindNextPacket ==
  ASSUME NEW m \in Nat, NEW list, \A i \in 1 .. m : list[i].time \in Int, Ascending(list, m),
         NEW k \in 0 .. m - 1
  PROVE  Find(list, m, list[k + 1].time) = k
<1>1. k \in 0 .. m /\ k + 1 \in 1 .. m /\ list[k + 1].time \in Int
  OBVIOUS
<1>2. \A i \in 1 .. k : list[i].time < list[k + 1].time
  BY <1>1 DEF Ascending
<1>3. \A i \in k + 1 .. m : ~ (list[i].time < list[k + 1].time)
  BY <1>1 DEF Ascending
<1> QED
  BY <1>1, <1>2, <1>3, FindUnique, Zenon

LEMMA OnePacketMore ==
  ASSUME NEW a \in Int, NEW b \in Int
  PROVE  /\ a * b \in Int /\ (a + 1) * b = a * b + b
         /\ (a - 1) * b = a * b - b /\ ((a + 1) - 1) * b = a * b
         /\ ((a + 1) - 2) * b = (a - 1) * b
OBVIOUS

LEMMA ReadInitInv == ReadInit => ReadInv
<1> SUFFICES ASSUME ReadInit PROVE ReadInv
  BY Zenon
<1>1. ReadCall /\ ReadTypeOK
  BY DEF ReadInit, ReadCall, ReadTypeOK
<1>2. SentSoFar
  <2>1. Offset = Find(points, n, first) /\ Offset \in Int
    <3>1. \A i, j \in 1 .. n : i < j => points[i].time <= points[j].time
      BY <1>1, ReadTypes, SMTT(30) DEF ReadCall, Ascending
    <3> QED
      BY <1>1, <3>1, ReadTypes, FindSplits, SMTT(30) DEF ReadInit, Offset
  <2> QED
    BY <1>1, <2>1, ReadTypes DEF ReadInit, SentSoFar
<1>3. PacketsSoFar
  BY Zenon DEF ReadInit, PacketsSoFar
<1> QED
  BY <1>1, <1>2, <1>3, Zenon DEF ReadInit, ReadInv

LEMMA ReadStartPreserves ==
  ASSUME ReadInv, routine' = routine, ReadStart
  PROVE  ReadInv'
<1> USE DEF ReadInv
<1>1. UNCHANGED << points, n, known, first, end, points_per_packet, begin >>
  BY Zenon DEF ReadStart, read_args
<1>2. /\ pc = "start" /\ begin = first /\ sent_count = 0 /\ packets = 0
      /\ Offset' = Offset /\ EndOffset' = EndOffset
  BY <1>1, Zenon DEF ReadStart, PacketsSoFar, Offset, EndOffset
<1>3. ReadCall'
  BY <1>1, Zenon DEF ReadCall
<1>4. Offset = Find(points, n, first) /\ Offset \in Int
  <2>1. \A i, j \in 1 .. n : i < j => points[i].time <= points[j].time
    BY ReadTypes, SMTT(30) DEF ReadCall, Ascending
  <2> QED
    BY <1>2, <2>1, ReadTypes, FindSplits DEF Offset
<1>5. CASE known /\ pc' = "loop" /\ UNCHANGED << sent, sent_count, packets >>
  <2>1. ReadTypeOK'
    BY <1>1, <1>5, Zenon DEF ReadTypeOK
  <2>2. SentSoFar'
    BY <1>1, <1>2, <1>4, <1>5, ReadTypes, Zenon DEF SentSoFar
  <2>3. PacketsSoFar'
    BY <1>1, <1>2, <1>5, ReadTypes, OnePacketMore DEF PacketsSoFar
  <2> QED
    BY <1>3, <2>1, <2>2, <2>3, Zenon
<1>6. CASE SendFails
  <2>1. ReadTypeOK'
    BY <1>1, <1>6, Zenon DEF ReadTypeOK, SendFails
  <2> QED
    BY <1>3, <1>6, <2>1, Zenon DEF SendFails, SentSoFar, PacketsSoFar
<1>7. CASE ~ known /\ SendPacket(0) /\ pc' = "done"
  <2>1. n = 0 /\ EndOffset = 0 /\ Find(points, n, first) = 0
    <3>1. n = 0
      BY <1>7, ReadTypes DEF ReadCall
    <3>2. \A t : { i \in 1 .. n : points[i].time < t } = { }
      BY <3>1
    <3> QED
      BY <3>1, <3>2, FS_EmptySet, Zenon DEF EndOffset, Find
  <2>2. sent_count' = 0 /\ packets' = 1 /\ sent' \in [ 1 .. 0 -> Point ]
    BY <1>2, <1>7 DEF SendPacket
  <2>3. ReadTypeOK'
    BY <1>1, <1>7, <2>1, <2>2 DEF ReadTypeOK
  <2>4. SentSoFar'
    BY <1>1, <1>2, <1>4, <2>2, ReadTypes DEF SentSoFar
  <2>5. PacketsSoFar'
    BY <1>1, <1>2, <1>7, <2>1, <2>2, ReadTypes DEF PacketsSoFar
  <2> QED
    BY <1>3, <2>3, <2>4, <2>5, Zenon
<1> QED
  BY <1>5, <1>6, <1>7, Zenon DEF ReadStart

(* A packet of k points, behind which the offset of the next one is known. *)
LEMMA PacketPreserves ==
  ASSUME ReadInv, routine' = routine, pc = "loop", pc' \in { "loop", "done" },
         UNCHANGED << points, n, read_args >>, first <= end,
         NEW k \in 0 .. n, Offset + k <= n, SendPacket(k),
         begin' \in Time, begin <= begin', begin' <= end, Offset' = Offset + k
  PROVE  ReadTypeOK' /\ ReadCall' /\ SentSoFar'
<1> USE DEF ReadInv
<1> DEFINE F == Find(points, n, first)
<1>1. UNCHANGED << points, n, known, first, end, points_per_packet >>
  BY Zenon DEF read_args
<1>2. /\ F \in 0 .. n /\ Offset \in F .. n /\ sent_count = Offset - F
      /\ \A i \in 1 .. sent_count : sent[i] = points[F + i]
  <2>1. first <= begin /\ sent_count = Offset - F /\ \A i \in 1 .. sent_count : sent[i] = points[F + i]
    BY Zenon DEF SentSoFar
  <2> QED
    BY <2>1, ReadTypes, FindOrdered, Zenon DEF ReadCall, Offset
<1>3. F' = F
  BY <1>1, Zenon
<1> HIDE DEF F
<1>4. /\ sent_count' = sent_count + k /\ sent_count' \in 0 .. n
      /\ \A i \in 1 .. sent_count' : F + i \in 1 .. n
      /\ \A i \in 1 .. sent_count' : sent'[i] = points[F + i]
      /\ DOMAIN sent' = 1 .. sent_count'
  <2>1. /\ sent_count' = sent_count + k
        /\ sent' = [ i \in 1 .. sent_count' |->
                      IF i <= sent_count THEN sent[i] ELSE points[Offset + i - sent_count] ]
    BY Zenon DEF SendPacket
  <2>2. /\ F \in Nat /\ Offset \in Nat /\ k \in Nat /\ n \in Nat /\ sent_count \in Nat
        /\ F + sent_count' = Offset + k /\ F + sent_count' <= n /\ sent_count' \in 0 .. n
    <3>1. n \in Nat /\ sent_count \in Nat
      BY ReadTypes, Zenon
    <3> QED
      BY <1>2, <2>1, <3>1, SMTT(30)
  <2>3. ASSUME NEW i \in 1 .. sent_count' PROVE F + i \in 1 .. n
    <3>1. PICK c \in 0 .. n : c = sent_count'
      BY <2>2, Zenon
    <3>2. i \in 1 .. c /\ F + c <= n
      BY <2>2, <3>1, Zenon
    <3> QED
      BY <2>2, <3>2
  <2>4. ASSUME NEW i \in 1 .. sent_count' PROVE sent'[i] = points[F + i]
    <3>1. CASE i <= sent_count
      BY <1>2, <2>1, <2>2, <3>1
    <3>2. CASE ~ (i <= sent_count)
      <4>1. Offset + i - sent_count = F + i
        BY <1>2, <2>2
      <4> QED
        BY <2>1, <3>2, <4>1, Zenon
    <3> QED
      BY <3>1, <3>2, Zenon
  <2>5. DOMAIN sent' = 1 .. sent_count'
    BY <2>1, Zenon
  <2> QED
    BY <2>1, <2>2, <2>3, <2>4, <2>5, Zenon
<1>5. ReadCall'
  BY <1>1, Zenon DEF ReadCall
<1>6. ReadTypeOK'
  <2>1. sent' \in [ 1 .. sent_count' -> Point ]
    BY <1>2, <1>4 DEF SendPacket, ReadCall
  <2>2. packets' \in Nat
    BY ReadTypes, SMTT(30) DEF SendPacket
  <2> QED
    BY <1>1, <1>4, <2>1, <2>2, Zenon DEF ReadTypeOK
<1>7. SentSoFar'
  <2>1. first' <= begin' /\ begin' <= end'
    BY <1>1, <1>6, ReadTypes, SMTT(30) DEF SentSoFar, ReadTypeOK, Time
  <2>2. sent_count' = Offset' - F
    BY <1>2, <1>4, ReadTypes
  <2> QED
    BY <1>1, <1>3, <1>4, <2>1, <2>2, Zenon DEF SentSoFar, F
<1> QED
  BY <1>5, <1>6, <1>7, Zenon

LEMMA ReadIteratePreserves ==
  ASSUME ReadInv, routine' = routine, ReadIterate
  PROVE  ReadInv'
<1> USE DEF ReadInv
<1> DEFINE k == Least(points_per_packet, Found)
<1>1. /\ pc = "loop" /\ begin' = NextBegin
      /\ UNCHANGED << points, n, known, first, end, points_per_packet, read_args, routine >>
      /\ \/ SendPacket(k) /\ pc' = IF IsLast(k) THEN "done" ELSE "loop"
         \/ SendFails
  BY Zenon DEF ReadIterate, read_args
<1>2. EndOffset' = EndOffset /\ Find(points, n, first)' = Find(points, n, first)
  BY <1>1, Zenon DEF EndOffset
<1>3. ReadCall'
  BY <1>1, Zenon DEF ReadCall
<1> DEFINE p == points_per_packet
           L == packets * points_per_packet
<1>4. /\ p \in Nat \ {0} /\ packets \in Nat /\ L \in Int
      /\ (packets + 1) * p = L + p /\ (packets - 1) * p = L - p
      /\ ((packets + 1) - 1) * p = L /\ ((packets + 1) - 2) * p = L - p
  BY ReadTypes, OnePacketMore
<1>5. /\ sent_count <= L /\ L - p < sent_count
      /\ begin <= end /\ Offset < EndOffset => sent_count = L
  BY <1>1, <1>4, Zenon DEF PacketsSoFar
<1> HIDE DEF L
<1>6. ASSUME SendFails, begin' \in Time PROVE ReadInv'
  <2>1. ReadTypeOK'
    BY <1>1, <1>6, Zenon DEF ReadTypeOK, SendFails
  <2> QED
    BY <1>1, <1>3, <1>6, <2>1, Zenon DEF SendFails, SentSoFar, PacketsSoFar
<1>7. CASE begin > end
  <2>1. Found = 0 /\ k = 0 /\ begin' = end /\ first > end /\ sent_count = 0
    <3>1. Found = 0 /\ k = 0
      BY <1>4, <1>7, SMTT(30) DEF Found, Least
    <3>2. first > end
      BY <1>1, <1>7, ReadTypes DEF SentSoFar
    <3> QED
      BY <1>1, <1>4, <3>1, <3>2, ReadTypes DEF NextBegin, SentSoFar
  <2>2. begin' \in Time
    BY <2>1, Zenon DEF ReadCall
  <2>3. CASE SendPacket(0) /\ pc' = "done"
    <3>1. /\ sent_count' = 0 /\ packets' = packets + 1 /\ sent' \in [ 1 .. 0 -> Point ]
      BY <2>1, <2>3, SMTT(30) DEF SendPacket
    <3>2. ReadTypeOK'
      BY <1>1, <1>4, <2>2, <2>3, <3>1, ReadTypes, SMTT(30) DEF ReadTypeOK
    <3>3. SentSoFar'
      BY <1>1, <2>1, <3>1, ReadTypes, SMTT(30) DEF SentSoFar
    <3>4. PacketsSoFar'
      BY <1>1, <1>2, <1>4, <1>5, <2>1, <2>3, <3>1, ReadTypes, SMTT(30) DEF PacketsSoFar
    <3> QED
      BY <1>1, <1>3, <3>2, <3>3, <3>4, Zenon
  <2> QED
    BY <1>1, <1>6, <2>1, <2>2, <2>3, Zenon DEF IsLast
<1>8. CASE begin <= end
  <2>1. /\ Offset \in 0 .. n /\ EndOffset \in Offset .. n
        /\ \A i \in 1 .. n : (begin <= points[i].time /\ points[i].time < end)
                               <=> i \in Offset + 1 .. EndOffset
    BY <1>8, ReadTypes, FindOrdered, Zenon DEF ReadCall, Offset, EndOffset
  <2>2. first <= end
    BY <1>1, <1>8, ReadTypes DEF PacketsSoFar
  <2>3. Found = Least(p + 1, EndOffset - Offset)
    BY <1>8, ReadTypes DEF Found, EndOffset
  <2>4. CASE p < EndOffset - Offset
    <3>1. Found = p + 1 /\ k = p /\ begin' = points[(Offset + p) + 1].time
      <4>1. Found = p + 1
        BY <1>4, <2>1, <2>3, <2>4 DEF Least
      <4>2. k = p
        BY <1>4, <4>1 DEF Least
      <4>3. begin' = points[Offset + Found].time
        BY <1>1, <4>1, Zenon DEF NextBegin
      <4>4. Offset + Found = (Offset + p) + 1
        BY <1>4, <2>1, <4>1
      <4> QED
        BY <4>1, <4>2, <4>3, <4>4, Zenon
    <3>2. /\ Offset + p \in 0 .. n - 1 /\ p \in 0 .. n /\ (Offset + p) + 1 \in 1 .. n
          /\ (Offset + p) + 1 \in Offset + 1 .. EndOffset
      BY <1>4, <2>1, <2>4, ReadTypes
    <3>3. begin <= begin' /\ begin' < end /\ begin' \in Time
      BY <2>1, <3>1, <3>2, ReadTypes, Zenon
    <3>4. Offset' = Offset + p
      BY <1>1, <3>1, <3>2, ReadTypes, FindNextPacket, Zenon DEF Offset, ReadCall
    <3>5. CASE SendPacket(p) /\ pc' = "loop"
      <4>1. ReadTypeOK' /\ ReadCall' /\ SentSoFar'
        <5>1. PICK q \in 0 .. n : q = p
          BY <3>2, Zenon
        <5>2. SendPacket(q) /\ Offset' = Offset + q /\ Offset + q <= n
          BY <2>1, <3>2, <3>4, <3>5, <5>1, ReadTypes
        <5>3. begin' <= end /\ pc' \in { "loop", "done" }
          BY <3>3, <3>5, ReadTypes DEF Time
        <5> QED
          BY <1>1, <2>2, <3>3, <5>2, <5>3, PacketPreserves, Zenon
      <4>2. sent_count' = L + p /\ packets' = packets + 1
        <5>1. Offset < EndOffset
          BY <1>4, <2>1, <2>4
        <5>2. sent_count = L
          BY <1>5, <1>8, <5>1, Zenon
        <5>3. QED
          BY <3>5, <5>2, Zenon DEF SendPacket
      <4>3. PacketsSoFar'
        BY <1>1, <1>4, <2>2, <3>5, <4>2, ReadTypes DEF PacketsSoFar
      <4> QED
        BY <1>1, <4>1, <4>3, Zenon
    <3> QED
      BY <1>1, <1>4, <1>6, <3>1, <3>3, <3>5, Zenon DEF IsLast
  <2>5. CASE EndOffset - Offset <= p
    <3> DEFINE d == EndOffset - Offset
    <3>1. d \in 0 .. n /\ Found = d /\ k = d /\ begin' = end
      <4>1. d \in 0 .. n /\ d <= p /\ d # p + 1
        BY <1>4, <2>1, <2>5, ReadTypes
      <4>2. Found = d /\ k = d
        BY <1>4, <2>3, <4>1, SMTT(30) DEF Least
      <4> QED
        BY <1>1, <4>1, <4>2, Zenon DEF NextBegin
    <3>2. begin' \in Time /\ Offset' = EndOffset /\ Offset + d = EndOffset
      BY <1>1, <2>1, <3>1, SMTT(30) DEF Offset, EndOffset, ReadCall
    <3>3. CASE SendPacket(d) /\ pc' = IF d = 0 THEN "done" ELSE "loop"
      <4>1. ReadTypeOK' /\ ReadCall' /\ SentSoFar'
        BY <1>1, <1>8, <2>1, <2>2, <3>1, <3>2, <3>3, ReadTypes, PacketPreserves
      <4>2. sent_count' = sent_count + d /\ packets' = packets + 1
        BY <3>3, Zenon DEF SendPacket
      <4>3. d # 0 => sent_count = L
        BY <1>5, <1>8, <2>1
      <4>4. sent_count' = EndOffset - Find(points, n, first)
        BY <1>1, <1>2, <2>2, <3>2, <3>3, <4>1, Zenon DEF SentSoFar
      <4>5. PacketsSoFar'
        <5>1. d \in Nat /\ d <= p
          BY <2>5, <3>1, ReadTypes
        <5>2. CASE d = 0
          <6>1. pc' = "done" /\ sent_count' = sent_count
            BY <1>1, <3>3, <4>2, <5>2, ReadTypes
          <6>2. sent_count' = IF first <= end THEN EndOffset - Find(points, n, first) ELSE 0
            BY <2>2, <4>4, Zenon
          <6> HIDE DEF d
          <6> QED
            BY <1>1, <1>2, <1>4, <1>5, <4>2, <6>1, <6>2, ReadTypes, Zenon DEF PacketsSoFar
        <5>3. CASE d # 0
          <6>1. pc' = "loop" /\ sent_count' = L + d /\ ~ (first > end) /\ ~ (Offset' < EndOffset)
            BY <2>1, <2>2, <3>2, <3>3, <4>2, <4>3, <5>3, ReadTypes
          <6> HIDE DEF d
          <6> QED
            BY <1>1, <1>2, <1>4, <4>2, <5>1, <5>3, <6>1, SMTT(30) DEF PacketsSoFar
        <5> QED
          BY <5>2, <5>3, Zenon
      <4> QED
        BY <1>1, <4>1, <4>5, Zenon
    <3> QED
      BY <1>1, <1>6, <3>1, <3>2, <3>3, Zenon DEF IsLast
  <2> QED
    BY <1>4, <2>1, <2>4, <2>5
<1> QED
  BY <1>7, <1>8, ReadTypes

LEMMA ReadNextInv ==
  ASSUME ReadInv, routine' = routine, ReadNext \/ UNCHANGED read_state
  PROVE  ReadInv'
<1>1. CASE UNCHANGED read_state
  <2>1. UNCHANGED << points, n, pc, known, first, end, points_per_packet, begin, sent, sent_count, packets >>
    BY <1>1, Zenon DEF read_state, read_vars, read_args
  <2>2. ReadTypeOK'
    BY <2>1, Zenon DEF ReadInv, ReadTypeOK
  <2>3. ReadCall'
    BY <2>1, Zenon DEF ReadInv, ReadCall
  <2>4. SentSoFar'
    BY <2>1, Zenon DEF ReadInv, SentSoFar, Offset
  <2>5. PacketsSoFar'
    BY <2>1, Zenon DEF ReadInv, PacketsSoFar, Offset, EndOffset
  <2> QED
    BY <2>2, <2>3, <2>4, <2>5, Zenon DEF ReadInv
<1> QED
  BY <1>1, ReadStartPreserves, ReadIteratePreserves, Zenon DEF ReadNext

LEMMA ReadInvAnswer == ReadInv => AnswerIsTheWindow
<1> SUFFICES ASSUME ReadInv, pc = "done" PROVE AnswerIsTheWindow
  BY Zenon DEF AnswerIsTheWindow
<1> USE DEF ReadInv
<1> DEFINE W == { i \in 1 .. n : first <= points[i].time /\ points[i].time < end }
           F == Find(points, n, first)
<1>1. /\ (packets - 1) * points_per_packet >= sent_count
      /\ (packets - 2) * points_per_packet < sent_count
      /\ sent_count = IF first <= end THEN EndOffset - F ELSE 0
  BY Zenon DEF PacketsSoFar
<1>2. CASE first > end
  <2>1. sent_count = 0 /\ W = { }
    BY <1>1, <1>2, ReadTypes
  <2>2. sent_count = Cardinality(W) /\ 1 .. sent_count = { }
    <3>1. sent_count = Cardinality(W)
      BY <2>1, FS_EmptySet, Zenon
    <3>2. 1 .. 0 = { }
      BY SMT
    <3> QED
      BY <2>1, <3>1, <3>2, Zenon
  <2> HIDE DEF W
  <2> QED
    BY <1>1, <2>2, Zenon DEF AnswerIsTheWindow, Ascending, W
<1>3. CASE first <= end
  <2>1. /\ F \in 0 .. n /\ EndOffset \in F .. n
        /\ \A i \in 1 .. n : (first <= points[i].time /\ points[i].time < end) <=> i \in F + 1 .. EndOffset
    BY <1>3, ReadTypes, FindOrdered, Zenon DEF ReadCall, EndOffset
  <2>2. \A i \in 1 .. sent_count : sent[i] = points[F + i]
    BY Zenon DEF SentSoFar
  <2> HIDE DEF F
  <2>3. sent_count = EndOffset - F
    BY <1>1, <1>3, Zenon
  <2>4. W = F + 1 .. EndOffset
    BY <2>1, ReadTypes, SMTT(30)
  <2>5. Cardinality(W) = sent_count
    <3>1. F + 1 \in Int /\ EndOffset \in Int
      BY <2>1, ReadTypes
    <3>2. Cardinality(F + 1 .. EndOffset) = IF F + 1 > EndOffset THEN 0 ELSE EndOffset - (F + 1) + 1
      BY <3>1, FS_Interval, Zenon
    <3> HIDE DEF W
    <3> QED
      BY <2>1, <2>3, <2>4, <3>2, ReadTypes, SMTT(30)
  <2>6. \A i \in 1 .. sent_count : F + i \in 1 .. n /\ F + i \in F + 1 .. EndOffset
    BY <2>1, <2>3, ReadTypes
  <2>7. \A i \in 1 .. sent_count : first <= sent[i].time /\ sent[i].time < end
    BY <2>1, <2>2, <2>6, Zenon
  <2>8. Ascending(sent, sent_count)
    <3>1. ASSUME NEW i \in 1 .. sent_count, NEW j \in 1 .. sent_count, i < j
          PROVE  sent[i].time < sent[j].time
      BY <2>1, <2>2, <2>6, <3>1, ReadTypes, SMTT(30) DEF ReadCall, Ascending
    <3> QED
      BY <3>1, Zenon DEF Ascending
  <2> QED
    BY <1>1, <2>5, <2>7, <2>8, Zenon DEF AnswerIsTheWindow
<1> QED
  BY <1>2, <1>3, ReadTypes

-----------------------------------------------------------------------------
(* execute_to_csv and execute_from_csv: the text is a line for each point  *)
(* read, and the output a point for each line read, and once more the last *)
(* line of numbers when the end of the text was met.                       *)
csv_state == << points, n, pc, csv_vars >>

IsPrinted(k) == Len(text) = k /\ \A i \in 1 .. k : text[i] = Printed(points[i])

IsRead(k) == Len(out) = k /\ \A i \in 1 .. pos : out[i] = text[i]

Converted ==
  /\ pc = "to_csv" => IsPrinted(pos) /\ out = << >> /\ ~ eof
  /\ pc \in { "from_csv", "done", "died" } => IsPrinted(n) /\ data_type # "none"
  /\ pc \in { "from_csv", "done" } /\ data_type = "string" => IsRead(pos) /\ ~ eof
  /\ pc \in { "from_csv", "done" } /\ data_type # "string" =>
       /\ ~ eof => IsRead(pos) /\ (pos > 0 => time_and_value = text[pos])
       /\ eof => IsRead(pos + 1) /\ pos = n /\ (n > 0 => out[n + 1] = text[n])
  /\ pc = "done" => pos = n /\ (data_type # "string" => eof)

CsvInv == routine = "csv" /\ CsvTypeOK /\ Converted

LEMMA CsvTypes ==
  ASSUME CsvTypeOK
  PROVE  n \in Nat /\ pos \in Nat /\ \A i \in 1 .. n : Printed(points[i]) \in Point
<1>1. n \in Nat /\ pos \in Nat
  BY MaxCountAssumption DEF CsvTypeOK
<1>2. points \in [ 1 .. n -> Point ]
  BY Zenon DEF CsvTypeOK
<1>3. ASSUME NEW p \in Point
      PROVE  Printed(p) \in Point
  <2>1. Rounded \in [ Value -> Value ] /\ Cut \in [ Value -> Value ]
    BY CsvAssumption, Zenon
  <2>2. QED
    BY <2>1 DEF Printed, Point
<1>4. QED
  BY <1>1, <1>2, <1>3, Zenon

(* Lines behind a text, and a point behind the output. *)
LEMMA ConcatList ==
  ASSUME NEW S, NEW s \in Seq(S), NEW k \in Nat, NEW f \in [ 1 .. k -> S ]
  PROVE  /\ s \o f \in Seq(S) /\ Len(s \o f) = Len(s) + k
         /\ \A i \in 1 .. Len(s) : (s \o f)[i] = s[i]
         /\ \A i \in 1 .. k : (s \o f)[Len(s) + i] = f[i]
<1>1. f \in Seq(S) /\ Len(f) = k
  OBVIOUS
<1> QED
  BY <1>1

LEMMA AppendPoint ==
  ASSUME NEW S, NEW s \in Seq(S), NEW e \in S
  PROVE  /\ Append(s, e) \in Seq(S) /\ Len(Append(s, e)) = Len(s) + 1
         /\ \A i \in 1 .. Len(s) : Append(s, e)[i] = s[i]
         /\ Append(s, e)[Len(s) + 1] = e
OBVIOUS

LEMMA CsvInitInv == CsvInit => CsvInv
<1> SUFFICES ASSUME CsvInit PROVE CsvInv
  BY Zenon
<1>1. n \in Nat /\ << >> \in Seq(Point) /\ Len(<< >>) = 0
  BY MaxCountAssumption DEF CsvInit
<1>2. CsvTypeOK
  <2>1. eof \in BOOLEAN
    BY Zenon DEF CsvInit
  <2>2. pos \in 0 .. n /\ text \in Seq(Point) /\ out \in Seq(Point) /\ line_len \in Nat
    BY <1>1, SMTT(30) DEF CsvInit
  <2> QED
    BY <2>1, <2>2, Zenon DEF CsvInit, CsvTypeOK
<1>3. Converted
  BY <1>1 DEF CsvInit, Converted, IsPrinted
<1> QED
  BY <1>2, <1>3, Zenon DEF CsvInv, CsvInit

LEMMA ToCsvPreserves ==
  ASSUME CsvInv, routine' = routine, execute_to_csv
  PROVE  CsvInv'
<1> USE DEF CsvInv
<1> DEFINE read == IF n - pos < Chunk THEN n - pos ELSE Chunk
           lines == [ i \in 1 .. read |-> Printed(points[pos + i]) ]
<1>1. /\ pc = "to_csv" /\ data_type # "none" /\ text' = text \o lines
      /\ UNCHANGED << points, n, data_type, eof, time_and_value, line_len, out >>
      /\ IF AtEnd(read) THEN pc' = "from_csv" /\ pos' = 0
         ELSE pos' = pos + read /\ pc' = pc
  BY Zenon DEF execute_to_csv, csv_args
<1>2. Len(text) = pos /\ (\A i \in 1 .. pos : text[i] = Printed(points[i])) /\ out = << >> /\ ~ eof
  BY <1>1, Zenon DEF Converted, IsPrinted
<1>3. read \in Nat /\ pos + read <= n /\ (read < Chunk => read = n - pos)
  BY CsvAssumption, CsvTypes, SMTT(30) DEF CsvTypeOK
<1> HIDE DEF read
<1>4. lines \in [ 1 .. read -> Point ] /\ \A i \in 1 .. read : lines[i] = Printed(points[pos + i])
  BY <1>3, CsvTypes DEF CsvTypeOK
<1> HIDE DEF lines
<1>5. /\ text' \in Seq(Point) /\ Len(text') = pos + read
      /\ \A i \in 1 .. pos : text'[i] = text[i]
      /\ \A i \in 1 .. read : text'[pos + i] = lines[i]
  <2>1. text \in Seq(Point)
    BY Zenon DEF CsvTypeOK
  <2>2. /\ text \o lines \in Seq(Point) /\ Len(text \o lines) = Len(text) + read
        /\ \A i \in 1 .. Len(text) : (text \o lines)[i] = text[i]
        /\ \A i \in 1 .. read : (text \o lines)[Len(text) + i] = lines[i]
    BY <1>3, <1>4, <2>1, ConcatList, SMTT(30)
  <2> QED
    BY <1>1, <1>2, <2>2, Zenon
<1>6. \A i \in 1 .. pos + read : text'[i] = Printed(points[i])
  <2> SUFFICES ASSUME NEW i \in 1 .. pos + read PROVE text'[i] = Printed(points[i])
    BY Zenon
  <2>1. CASE i \in 1 .. pos
    BY <1>2, <1>5, <2>1, Zenon
  <2>2. CASE i - pos \in 1 .. read
    <3>1. pos + (i - pos) = i
      BY CsvTypes
    <3> QED
      BY <1>4, <1>5, <2>2, <3>1, Zenon
  <2> QED
    BY <1>3, <2>1, <2>2, CsvTypes
<1>7. \A i : Printed(points[i])' = Printed(points[i])
  BY <1>1, Zenon DEF Printed
<1>8. CsvTypeOK'
  <2>1. n \in Nat /\ pos \in Nat
    BY CsvTypes, Zenon
  <2>2. 0 \in 0 .. n /\ pos + read \in 0 .. n
    BY <1>3, <2>1, SMTT(30)
  <2>3. pos' \in 0 .. n /\ pc' \in { "to_csv", "from_csv" }
    BY <1>1, <2>2, ZenonT(30)
  <2> QED
    BY <1>1, <1>5, <2>3, Zenon DEF CsvTypeOK
<1>9. CASE AtEnd(read)
  <2>1. pos + read = n /\ pc' = "from_csv" /\ pos' = 0
    BY <1>1, <1>3, <1>9, CsvTypes DEF AtEnd
  <2>2. IsPrinted(n)'
    BY <1>1, <1>5, <1>6, <1>7, <2>1, Zenon DEF IsPrinted
  <2>3. IsRead(pos)'
    BY <1>1, <1>2, <2>1, SMTT(30) DEF IsRead
  <2> QED
    BY <1>1, <1>2, <1>8, <2>1, <2>2, <2>3, SMTT(30) DEF Converted
<1>10. CASE ~ AtEnd(read)
  <2>1. pc' = "to_csv" /\ pos' = pos + read
    BY <1>1, <1>10, Zenon
  <2>2. IsPrinted(pos)'
    BY <1>1, <1>5, <1>6, <1>7, <2>1, Zenon DEF IsPrinted
  <2> QED
    BY <1>1, <1>2, <1>8, <2>1, <2>2, Zenon DEF Converted
<1> QED
  BY <1>9, <1>10, Zenon

(* The line after line i of a text that has more than i lines, as from_csv's getline finds it. *)
LEMMA NextLine ==
  ASSUME NEW S, NEW s \in Seq(S), NEW i \in Nat, i < Len(s)
  PROVE  i + 1 \in 0 .. Len(s) /\ s[i + 1] \in S
OBVIOUS

(* A line of the text is read and written. *)
LEMMA LinePreserves ==
  ASSUME CsvInv, routine' = routine, pc = "from_csv", pc' = pc, ~ eof, pos < Len(text),
         time_and_value' = text[pos + 1], pos' = pos + 1, WritePoint,
         UNCHANGED << points, n, csv_args, text, eof >>, line_len' \in Nat
  PROVE  CsvInv'
<1> USE DEF CsvInv
<1>1. data_type' = data_type /\ \A i : Printed(points[i])' = Printed(points[i])
  BY Zenon DEF csv_args, Printed
<1>2. IsPrinted(n) /\ IsRead(pos) /\ data_type # "none"
  BY Zenon DEF Converted
<1>3. pos + 1 \in 0 .. n /\ text[pos + 1] \in Point /\ pos \in Nat
  <2>1. n \in Nat /\ pos \in Nat /\ text \in Seq(Point) /\ Len(text) = n
    BY <1>2, CsvTypes, Zenon DEF IsPrinted, CsvTypeOK
  <2> QED
    BY <2>1, NextLine, Zenon
<1>4. /\ out' \in Seq(Point) /\ Len(out') = pos + 1
      /\ \A i \in 1 .. pos : out'[i] = text[i]
      /\ out'[pos + 1] = text[pos + 1]
  <2>1. PICK e \in Point : e = text[pos + 1]
    BY <1>3, Zenon
  <2>2. out' = Append(out, e)
    BY <2>1, Zenon DEF WritePoint
  <2>3. out \in Seq(Point) /\ Len(out) = pos /\ \A i \in 1 .. pos : out[i] = text[i]
    BY <1>2, Zenon DEF IsRead, CsvTypeOK
  <2>4. /\ Append(out, e) \in Seq(Point) /\ Len(Append(out, e)) = Len(out) + 1
        /\ \A i \in 1 .. Len(out) : Append(out, e)[i] = out[i]
        /\ Append(out, e)[Len(out) + 1] = e
    BY <2>3, AppendPoint, Zenon
  <2> QED
    BY <2>1, <2>2, <2>3, <2>4, Zenon
<1>5. CsvTypeOK'
  BY <1>1, <1>3, <1>4, Zenon DEF CsvTypeOK
<1>6. IsRead(pos)' /\ time_and_value' = text'[pos']
  <2>1. \A i \in 1 .. pos + 1 : i \in 1 .. pos \/ i = pos + 1
    BY <1>3, SMT
  <2>2. \A i \in 1 .. pos + 1 : out'[i] = text[i]
    BY <1>4, <2>1, Zenon
  <2> QED
    BY <1>4, <2>2, Zenon DEF IsRead
<1>7. IsPrinted(n)'
  BY <1>1, <1>2, Zenon DEF IsPrinted
<1> QED
  BY <1>1, <1>2, <1>5, <1>6, <1>7, Zenon DEF Converted

(* The fscanf that meets the end. *)
LEMMA LastLinePreserves ==
  ASSUME CsvInv, routine' = routine, pc = "from_csv", pc' = pc, ~ eof, pos = Len(text), eof' = TRUE,
         data_type # "string", UNCHANGED << time_and_value, pos >>, WritePoint,
         UNCHANGED << points, n, csv_args, text, line_len >>
  PROVE  CsvInv'
<1> USE DEF CsvInv
<1>1. data_type' = data_type /\ \A i : Printed(points[i])' = Printed(points[i])
  BY Zenon DEF csv_args, Printed
<1>2. IsPrinted(n) /\ IsRead(pos) /\ data_type # "none" /\ (pos > 0 => time_and_value = text[pos])
  BY Zenon DEF Converted
<1>3. pos = n /\ n \in Nat
  BY <1>2, CsvTypes, Zenon DEF IsPrinted
<1>4. /\ out' \in Seq(Point) /\ Len(out') = pos + 1
      /\ \A i \in 1 .. pos : out'[i] = text[i]
      /\ out'[pos + 1] = time_and_value
  <2>1. PICK e \in Point : e = time_and_value
    BY Zenon DEF CsvTypeOK
  <2>2. out' = Append(out, e)
    BY <2>1, Zenon DEF WritePoint
  <2>3. out \in Seq(Point) /\ Len(out) = pos /\ \A i \in 1 .. pos : out[i] = text[i]
    BY <1>2, Zenon DEF IsRead, CsvTypeOK
  <2>4. /\ Append(out, e) \in Seq(Point) /\ Len(Append(out, e)) = Len(out) + 1
        /\ \A i \in 1 .. Len(out) : Append(out, e)[i] = out[i]
        /\ Append(out, e)[Len(out) + 1] = e
    BY <2>3, AppendPoint, Zenon
  <2> QED
    BY <2>1, <2>2, <2>3, <2>4, Zenon
<1>5. CsvTypeOK'
  BY <1>1, <1>3, <1>4, CsvTypes, Zenon DEF CsvTypeOK
<1>6. IsRead(pos + 1)'
  BY <1>3, <1>4, Zenon DEF IsRead
<1>7. IsPrinted(n)'
  BY <1>1, <1>2, Zenon DEF IsPrinted
<1>8. n > 0 => out'[n + 1] = text[n]
  BY <1>2, <1>3, <1>4, Zenon
<1> QED
  BY <1>1, <1>2, <1>3, <1>5, <1>6, <1>7, <1>8, Zenon DEF Converted

LEMMA CsvNextInv ==
  ASSUME CsvInv, routine' = routine, CsvNext \/ UNCHANGED csv_state
  PROVE  CsvInv'
<1> USE DEF CsvInv
<1>1. ASSUME UNCHANGED << points, n, csv_args, text, pos, eof, time_and_value, out >>
      PROVE  /\ data_type' = data_type /\ (IsPrinted(n) => IsPrinted(n)')
             /\ (IsPrinted(pos) => IsPrinted(pos)') /\ (IsRead(pos) => IsRead(pos)')
             /\ (IsRead(pos + 1) => IsRead(pos + 1)')
             /\ (pc' \in { "to_csv", "from_csv", "done", "refused", "died" } /\ line_len' \in Nat => CsvTypeOK')
  BY <1>1, Zenon DEF csv_args, IsPrinted, IsRead, Printed, CsvTypeOK
<1>2. CASE UNCHANGED csv_state
  <2>1. UNCHANGED << points, n, csv_args, text, pos, eof, time_and_value, line_len, out, pc >>
    BY <1>2, Zenon DEF csv_state, csv_vars
  <2>2. CsvTypeOK'
    BY <1>1, <2>1, Zenon DEF CsvTypeOK
  <2> QED
    BY <1>1, <2>1, <2>2 DEF Converted
<1>3. CASE CsvRefuse
  <2>1. line_len' \in Nat
    BY <1>3, Zenon DEF CsvRefuse, CsvTypeOK
  <2> QED
    BY <1>1, <1>3, <2>1, Zenon DEF CsvRefuse, Converted
<1>4. CASE execute_to_csv
  BY <1>4, ToCsvPreserves, Zenon
<1>5. CASE FromNumbers
  <2> line_len' = line_len /\ line_len \in Nat
    BY <1>5, Zenon DEF FromNumbers, CsvTypeOK
  <2>1. CASE pos < Len(text)
    BY <1>5, <2>1, LinePreserves DEF FromNumbers
  <2>2. CASE pos = Len(text)
    <3>1. pc = "from_csv" /\ ~ eof /\ data_type # "string" /\ WritePoint
      BY <1>5, Zenon DEF FromNumbers
    <3>2. eof' = TRUE
      BY <1>5, <2>2 DEF FromNumbers
    <3>3. UNCHANGED << time_and_value, pos >> /\ UNCHANGED << points, n, csv_args, text >> /\ pc' = pc
      BY <1>5, <2>2 DEF FromNumbers
    <3> QED
      BY <2>2, <3>1, <3>2, <3>3, LastLinePreserves, Zenon
  <2> QED
    BY <1>5, <2>1, <2>2, Zenon DEF FromNumbers
<1>6. CASE FromStrings
  <2>1. pc = "from_csv" /\ data_type = "string" /\ UNCHANGED << points, n, csv_args, text, eof >>
    BY <1>6, Zenon DEF FromStrings
  <2>2. IsPrinted(n) /\ IsRead(pos) /\ ~ eof
    BY <2>1, Zenon DEF Converted
  <2> line_len' \in Nat
    <3>1. line_len \in Nat /\ \A b \in Buffers : b \in Nat
      BY CsvAssumption, Zenon DEF CsvTypeOK
    <3> QED
      BY <1>6, <3>1, Zenon DEF FromStrings, getline
  <2>3. CASE pos = Len(text) /\ pc' = "done" /\ UNCHANGED << pos, time_and_value, out >>
    <3>1. pos = n
      BY <2>2, <2>3, Zenon DEF IsPrinted
    <3> QED
      BY <1>1, <2>1, <2>2, <2>3, <3>1, Zenon DEF Converted
  <2>4. CASE pc' = "died" /\ UNCHANGED << pos, time_and_value, out >>
    BY <1>1, <2>1, <2>2, <2>4, Zenon DEF Converted
  <2>5. CASE /\ pos < Len(text) /\ time_and_value' = text[pos + 1]
             /\ pos' = pos + 1 /\ WritePoint /\ pc' = pc
    BY <2>1, <2>2, <2>5, LinePreserves, Zenon
  <2> QED
    BY <1>6, <2>3, <2>4, <2>5, Zenon DEF FromStrings
<1>7. CASE EndOfNumbers
  <2>1. pc = "from_csv" /\ eof /\ pc' = "done" /\ line_len' \in Nat
    BY <1>7, Zenon DEF EndOfNumbers, CsvTypeOK
  <2>2. data_type # "string" /\ IsRead(pos + 1) /\ pos = n /\ (n > 0 => out[n + 1] = text[n]) /\ IsPrinted(n)
    BY <2>1, Zenon DEF Converted
  <2> QED
    BY <1>1, <1>7, <2>1, <2>2, Zenon DEF EndOfNumbers, Converted
<1> QED
  BY <1>2, <1>3, <1>4, <1>5, <1>6, <1>7, Zenon DEF CsvNext

LEMMA CsvInvLosesNothing == CsvInv => CsvLosesNothing
<1> SUFFICES ASSUME CsvInv, pc = "done" PROVE CsvLosesNothing
  BY Zenon DEF CsvLosesNothing
<1> USE DEF CsvInv
<1>1. pos = n /\ n \in Nat /\ \A i \in 1 .. n : text[i] = Printed(points[i])
  BY CsvTypes, Zenon DEF Converted, IsPrinted
<1>2. CASE data_type = "string"
  <2>1. Len(out) = n /\ \A i \in 1 .. n : out[i] = text[i]
    BY <1>1, <1>2, Zenon DEF Converted, IsRead
  <2>2. n >= n
    BY <1>1
  <2> QED
    BY <1>1, <2>1, <2>2, Zenon DEF CsvLosesNothing
<1>3. CASE data_type # "string"
  <2>1. Len(out) = n + 1 /\ \A i \in 1 .. n : out[i] = text[i]
    BY <1>1, <1>3, Zenon DEF Converted, IsRead
  <2>2. n + 1 >= n
    BY <1>1
  <2> QED
    BY <1>1, <1>3, <2>1, <2>2, Zenon DEF CsvLosesNothing
<1> QED
  BY <1>2, <1>3, Zenon

-----------------------------------------------------------------------------
(* A behaviour is a call of one of the routines. *)
LoopsInv == FindInv \/ MergeInv \/ DistinctInv \/ ReadInv \/ CsvInv

LEMMA LoopsInitInv == Init => LoopsInv
BY FindInitInv, MergeInitInv, DistinctInitInv, ReadInitInv, CsvInitInv, Zenon DEF Init, LoopsInv

LEMMA LoopsNextInv == LoopsInv /\ [Next]_vars => LoopsInv'
<1> SUFFICES ASSUME LoopsInv, [Next]_vars PROVE LoopsInv'
  BY Zenon
<1>1. routine' = routine
  BY Zenon DEF Next, Find_Step, Merge_Step, Distinct_Step, Read_Step, Csv_Step, vars
<1>2. CASE FindInv
  <2>1. FindNext \/ UNCHANGED find_state
    BY <1>2, Zenon DEF Next, Find_Step, Merge_Step, Distinct_Step, Read_Step, Csv_Step, FindInv,
                MergeNext, DistinctNext, ReadNext, CsvNext, vars, find_state
  <2> QED
    BY <1>1, <1>2, <2>1, FindNextInv, Zenon DEF LoopsInv
<1>3. CASE MergeInv
  <2>1. MergeNext \/ UNCHANGED merge_state
    BY <1>3, Zenon DEF Next, Find_Step, Merge_Step, Distinct_Step, Read_Step, Csv_Step, MergeInv,
                FindNext, DistinctNext, ReadNext, CsvNext, vars, merge_state
  <2> QED
    BY <1>1, <1>3, <2>1, MergeNextInv, Zenon DEF LoopsInv
<1>4. CASE DistinctInv
  <2>1. DistinctNext \/ UNCHANGED distinct_state
    BY <1>4, Zenon DEF Next, Find_Step, Merge_Step, Distinct_Step, Read_Step, Csv_Step, DistinctInv,
                FindNext, MergeNext, ReadNext, CsvNext, vars, distinct_state
  <2> QED
    BY <1>1, <1>4, <2>1, DistinctNextInv, Zenon DEF LoopsInv
<1>5. CASE ReadInv
  <2>1. ReadNext \/ UNCHANGED read_state
    BY <1>5, Zenon DEF Next, Find_Step, Merge_Step, Distinct_Step, Read_Step, Csv_Step, ReadInv,
                FindNext, MergeNext, DistinctNext, CsvNext, vars, read_state
  <2> QED
    BY <1>1, <1>5, <2>1, ReadNextInv, Zenon DEF LoopsInv
<1>6. CASE CsvInv
  <2>1. CsvNext \/ UNCHANGED csv_state
    BY <1>6, Zenon DEF Next, Find_Step, Merge_Step, Distinct_Step, Read_Step, Csv_Step, CsvInv,
                FindNext, MergeNext, DistinctNext, ReadNext, vars, csv_state
  <2> QED
    BY <1>1, <1>6, <2>1, CsvNextInv, Zenon DEF LoopsInv
<1> QED
  BY <1>2, <1>3, <1>4, <1>5, <1>6, Zenon DEF LoopsInv

LEMMA LoopsInvariant == Spec => []LoopsInv
BY LoopsInitInv, LoopsNextInv, PTL DEF Spec

LEMMA LoopsInvImplies ==
  LoopsInv => /\ ListsTypeOK /\ FindIsCorrect /\ MergedSoFar /\ MergeIsCorrect /\ KeptSoFar
              /\ PreparedIsCorrect /\ SentSoFar /\ AnswerIsTheWindow /\ CsvLosesNothing
<1>1. FindInv => ListsTypeOK /\ FindIsCorrect
  BY Zenon DEF FindInv, ListsTypeOK
<1>2. MergeInv => ListsTypeOK /\ MergedSoFar /\ MergeIsCorrect
  BY Zenon DEF MergeInv, ListsTypeOK
<1>3. DistinctInv => ListsTypeOK /\ KeptSoFar /\ PreparedIsCorrect
  BY Zenon DEF DistinctInv, ListsTypeOK
<1>4. ReadInv => ListsTypeOK /\ SentSoFar /\ AnswerIsTheWindow
  BY ReadInvAnswer, Zenon DEF ReadInv, ListsTypeOK
<1>5. CsvInv => ListsTypeOK /\ CsvLosesNothing
  BY CsvInvLosesNothing, Zenon DEF CsvInv, ListsTypeOK
<1>6. ASSUME routine # "find" PROVE FindIsCorrect
  BY <1>6, Zenon DEF FindIsCorrect
<1>7. ASSUME routine # "merge" PROVE MergedSoFar /\ MergeIsCorrect
  BY <1>7, Zenon DEF MergedSoFar, MergeIsCorrect
<1>8. ASSUME routine # "distinct" PROVE KeptSoFar /\ PreparedIsCorrect
  BY <1>8, Zenon DEF KeptSoFar, PreparedIsCorrect
<1>9. ASSUME routine # "read" PROVE SentSoFar /\ AnswerIsTheWindow
  BY <1>9, Zenon DEF SentSoFar, AnswerIsTheWindow
<1>10. ASSUME routine # "csv" PROVE CsvLosesNothing
  BY <1>10, Zenon DEF CsvLosesNothing
<1>11. /\ FindInv => routine = "find"
       /\ MergeInv => routine = "merge"
       /\ DistinctInv => routine = "distinct"
       /\ ReadInv => routine = "read"
       /\ CsvInv => routine = "csv"
  BY Zenon DEF FindInv, MergeInv, DistinctInv, ReadInv, CsvInv
<1> QED
  BY <1>1, <1>2, <1>3, <1>4, <1>5, <1>6, <1>7, <1>8, <1>9, <1>10, <1>11, Zenon DEF LoopsInv

(* All loops: the indices stay within the lists, of any length. *)
THEOREM LoopsStayInside == Spec => []ListsTypeOK
BY LoopsInvariant, LoopsInvImplies, PTL

(* data_point_find: a search of a sorted list, in which the time it looks  *)
(* for occurs at most once, returns the offset of the first point that is  *)
(* not before it.                                                          *)
THEOREM FindCorrectness == Spec => []FindIsCorrect
BY LoopsInvariant, LoopsInvImplies, PTL

(* data_point_merge: at every iteration, the buffer holds the merge of the *)
(* points both lists were read up to.                                      *)
THEOREM MergeProgress == Spec => []MergedSoFar
BY LoopsInvariant, LoopsInvImplies, PTL

(* data_point_merge: the result is the merge of the two lists, in which    *)
(* the points of src win.                                                  *)
THEOREM MergeCorrectness == Spec => []MergeIsCorrect
BY LoopsInvariant, LoopsInvImplies, PTL

(* data_point_non_zero_distinct: at every iteration, one point is kept of  *)
(* each time seen but 0.                                                   *)
THEOREM DistinctProgress == Spec => []KeptSoFar
BY LoopsInvariant, LoopsInvImplies, PTL

(* data_point_non_zero_distinct: what is left of a batch is one point of   *)
(* each of its times but 0, in ascending order.                            *)
THEOREM DistinctCorrectness == Spec => []PreparedIsCorrect
BY LoopsInvariant, LoopsInvImplies, PTL

(* handle_read: no point is sent twice and none is left out where a packet *)
(* ends, for packets of any size.                                          *)
THEOREM NoPointLostBetweenPackets == Spec => []SentSoFar
BY LoopsInvariant, LoopsInvImplies, PTL

(* handle_read: a complete answer is the window, in full packets but for   *)
(* the last one and an empty packet at its end.                            *)
THEOREM ReadAnswersTheWindow == Spec => []AnswerIsTheWindow
BY LoopsInvariant, LoopsInvImplies, PTL

(* shakadbctl to-csv and from-csv: every point printed comes back in its   *)
(* place, whatever the size of a chunk and of getline's buffer; of strings *)
(* nothing else comes back.                                                *)
THEOREM CsvKeepsEveryPoint == Spec => []CsvLosesNothing
BY LoopsInvariant, LoopsInvImplies, PTL
=============================================================================
