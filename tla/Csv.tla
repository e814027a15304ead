-------------------------------- MODULE Csv ---------------------------------
(***************************************************************************)
(* The conversions of shakadbctl (src/ctl/main.c): execute_to_csv prints   *)
(* points as lines, execute_from_csv reads these lines back.  A line holds *)
(* what printing keeps of a value, and the values are those whose text is  *)
(* one line.  What is followed step by step is how the two loops meet the  *)
(* end of their streams.                                                   *)
(***************************************************************************)
EXTENDS DataPointLists, Sequences

CONSTANTS
  Chunk,        \* points_size, the points of one fread
  StringSize,   \* the value sizes users give for strings
  Buffers,      \* the sizes getline allocates for a line
  Rounded,      \* what "%f" keeps of a float
  Cut,          \* what "%s" keeps of a string: the part before the first zero
  Length        \* how many characters that part has

ASSUME CsvAssumption ==
  /\ Chunk \in Nat \ {0} /\ StringSize \subseteq Nat /\ Buffers \subseteq Nat
  /\ Rounded \in [ Value -> Value ] /\ Cut \in [ Value -> Value ]
  /\ Length \in [ Value -> Nat ]

VARIABLES
  data_type,          \* "none" if the type or the size is missing
  value_size,
  text,               \* the lines printed
  pos,                \* how far the current stream is read
  eof,                \* feof(stdin)
  time_and_value,     \* the variables time and value of execute_from_csv
  line_len,           \* the size of the buffer getline has
  out                 \* the points from_csv has written

csv_args == << data_type, value_size >>
csv_vars == << csv_args, text, pos, eof, time_and_value, line_len, out >>

NoCsv ==
  /\ data_type = 0 /\ value_size = 0 /\ text = 0 /\ pos = 0 /\ eof = 0
  /\ time_and_value = 0 /\ line_len = 0 /\ out = 0

(* time is not initialised, so it may hold anything.  Strings end within   *)
(* their size: "%s" would print the bytes behind one that does not.        *)
CsvInit ==
  /\ routine = "csv"
  /\ n \in 0 .. MaxCount
  /\ points \in [ 1 .. n -> Point ]
  /\ Ascending(points, n)
  /\ data_type \in { "none", "int", "float", "string" }
  /\ value_size \in IF data_type = "string" THEN StringSize ELSE { 8 }
  /\ data_type = "string" => \A i \in 1 .. n : Length[points[i].value] < value_size
  /\ time_and_value \in Point
  /\ text = << >> /\ pos = 0 /\ eof = FALSE /\ line_len = 0 /\ out = << >>
  /\ pc = "to_csv"

(* What the printf of a type keeps of a point. *)
Printed(p) ==
  CASE data_type = "float"  -> [ p EXCEPT !.value = Rounded[@] ]
    [] data_type = "string" -> [ p EXCEPT !.value = Cut[@] ]
    [] OTHER                -> p

CsvRefuse ==
  /\ pc = "to_csv" /\ data_type = "none"
  /\ pc' = "refused"
  /\ UNCHANGED << points, n, csv_args, text, pos, eof, time_and_value, line_len, out >>

(* Mutant: a full chunk is taken for the last one. *)
AtEnd_Full(read) == read <= Chunk

(* A stream is known to be at its end once less was read than asked for. *)
AtEnd(read) == read < Chunk

(* One fread and the lines of its points; behind the last one, the text is *)
(* the input of from_csv.                                                  *)
execute_to_csv ==
  LET read == IF n - pos < Chunk THEN n - pos ELSE Chunk
  IN  /\ pc = "to_csv" /\ data_type # "none"
      /\ text' = text \o [ i \in 1 .. read |-> Printed(points[pos + i]) ]
      /\ IF AtEnd(read)
         THEN pc' = "from_csv" /\ pos' = 0
         ELSE pos' = pos + read /\ UNCHANGED pc
      /\ UNCHANGED << points, n, csv_args, eof, time_and_value, line_len, out >>

(* fwrite of time and value. *)
WritePoint == out' = Append(out, time_and_value')

(* fscanf leaves the newline, so the end is only met by one more fscanf,   *)
(* which changes neither variable: the last point is written again.        *)
FromNumbers ==
  /\ pc = "from_csv" /\ data_type \in { "int", "float" } /\ ~ eof
  /\ \/ /\ pos < Len(text)
        /\ time_and_value' = text[pos + 1]
        /\ pos' = pos + 1
        /\ UNCHANGED eof
     \/ /\ pos = Len(text)
        /\ eof' = TRUE
        /\ UNCHANGED << time_and_value, pos >>
  /\ WritePoint
  /\ UNCHANGED << points, n, csv_args, text, line_len, pc >>

(* getline keeps its buffer as long as the line fits, with the newline and *)
(* a zero, and allocates a larger one otherwise.                           *)
getline(p) ==
  LET need == Length[p.value] + 2
  IN  IF need <= line_len THEN UNCHANGED line_len ELSE line_len' \in { b \in Buffers : need <= b }

(* getline takes the newline too, so the end is met before the next line;  *)
(* line_len is the size of its buffer, not the length of the line.         *)
FromStrings ==
  /\ pc = "from_csv" /\ data_type = "string"
  /\ \/ /\ pos = Len(text)
        /\ pc' = "done"
        /\ UNCHANGED << pos, time_and_value, line_len, out >>
     \/ /\ pos < Len(text) /\ getline(text[pos + 1]) /\ line_len' > value_size
        /\ pc' = "died"
        /\ UNCHANGED << pos, time_and_value, out >>
     \/ /\ pos < Len(text) /\ getline(text[pos + 1]) /\ line_len' <= value_size
        /\ time_and_value' = text[pos + 1]
        /\ pos' = pos + 1
        /\ WritePoint
        /\ UNCHANGED pc
  /\ UNCHANGED << points, n, csv_args, text, eof >>

EndOfNumbers ==
  /\ pc = "from_csv" /\ eof
  /\ pc' = "done"
  /\ UNCHANGED << points, n, csv_args, text, pos, eof, time_and_value, line_len, out >>

CsvNext ==
  /\ routine = "csv"
  /\ CsvRefuse \/ execute_to_csv \/ FromNumbers \/ FromStrings \/ EndOfNumbers

-----------------------------------------------------------------------------
CsvTypeOK ==
  /\ n \in 0 .. MaxCount
  /\ points \in [ 1 .. n -> Point ]
  /\ data_type \in { "none", "int", "float", "string" }
  /\ text \in Seq(Point) /\ out \in Seq(Point)
  /\ pos \in 0 .. n
  /\ eof \in BOOLEAN
  /\ time_and_value \in Point
  /\ line_len \in Nat
  /\ pc \in { "to_csv", "from_csv", "done", "refused", "died" }

(* "from_csv reads data from the STDIN in CSV format and converts to       *)
(* binary" (the usage text of ctl/main.c): of what to_csv has printed, no  *)
(* point is lost, altered or out of place, for any number of points; of    *)
(* strings nothing is added either.                                        *)
CsvLosesNothing ==
  routine = "csv" /\ pc = "done" =>
    /\ Len(out) >= n /\ \A i \in 1 .. n : out[i] = Printed(points[i])
    /\ data_type = "string" => Len(out) = n

(* The conversion to the full: nothing else is written.  It fails for      *)
(* numbers, whose last point is written twice; when there is none, one     *)
(* point of arbitrary bytes is written.                                    *)
CsvIsExact ==
  routine = "csv" /\ pc = "done" => out = [ i \in 1 .. n |-> Printed(points[i]) ]
=============================================================================
