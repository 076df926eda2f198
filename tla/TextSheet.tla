------------------------------ MODULE TextSheet ------------------------------
(***************************************************************************)
(* TextSheet_t (src/TextSheet.cpp), with what it takes from Unicodes and   *)
(* Converts: a table of numbers drawn as text.  A text is the width it is  *)
(* displayed with, where a Chinese character counts twice; a number is the *)
(* width it has when it is printed in full.                                *)
(***************************************************************************)
EXTENDS Integers, Sequences, SequencesExt, FiniteSetsExt, Totals

CONSTANTS
  Name,          \* widths of names: of the sheet, rows and columns
  Width,         \* widths a column is given
  Number,        \* widths of numbers
  Zero,          \* that of 0.0
  MaxRows, MaxCols, \* bounds on the table
  MaxWide        \* bound on the width of the column of names

\* What the module takes of its constants.
Params ==
  /\ Name \subseteq Nat /\ Width \subseteq Nat
  /\ Number \subseteq Nat \ {0} /\ Zero \in Nat \ {0}
  /\ {MaxRows, MaxCols, MaxWide} \subseteq Nat

VARIABLES
  sheet_name,    \* _sheet_name
  row_specs,     \* _row_specs: the name and if it is shown
  col_specs,     \* _col_specs: also the width
  head, sepa, foot, \* the widths of the lines of _head_line, _sepa_line, _foot_line
  all_data,      \* _all_data
  drawn          \* history: skeleton() has been called since the table changed

vars == <<sheet_name, row_specs, col_specs, head, sepa, foot, all_data, drawn>>

Init ==
  /\ sheet_name \in Name
  /\ row_specs = <<>> /\ col_specs = <<>>
  /\ head = <<>> /\ sepa = <<>> /\ foot = <<>>
  /\ all_data = <<>>
  /\ drawn = FALSE

Shown(specs) == {i \in DOMAIN specs : specs[i].v}

(* adapt_width() and adapt_centr(): blanks on one side or both, and a text that
   is too wide stays so. *)
Adapted(w, text) == Max({w, text})

\* A slip: a number that does not fit is not replaced by asterisks.
fmt_Overlong(w, number) == Max({w, number})

\* fmt(): padded to w, and w asterisks if it does not fit; 0 means as wide as it is.
fmt(w, number) == IF w > 0 THEN w ELSE number

\* The cell of a column: textOf() leaves a blank at either side.
Cell(spec, number) == Adapted(spec.w, fmt(spec.w - 2, number))

clear ==
  /\ row_specs' = <<>> /\ col_specs' = <<>>
  /\ head' = <<>> /\ sepa' = <<>> /\ foot' = <<>>
  /\ all_data' = <<>>
  /\ drawn' = FALSE
  /\ UNCHANGED sheet_name

addCol(n, w, v) ==
  /\ Len(col_specs) < MaxCols
  /\ col_specs' = Append(col_specs, [n |-> n, w |-> w, v |-> v])
  /\ drawn' = FALSE
  /\ UNCHANGED <<sheet_name, row_specs, head, sepa, foot, all_data>>

addRow(n, v) ==
  /\ Len(row_specs) < MaxRows
  /\ row_specs' = Append(row_specs, [n |-> n, v |-> v])
  /\ drawn' = FALSE
  /\ UNCHANGED <<sheet_name, col_specs, head, sepa, foot, all_data>>

\* A slip: the name of the sheet is not measured.
name_width_NoSheet == Max({row_specs[r].n : r \in Shown(row_specs)} \cup {0}) + 2

\* _name_width: the widest of the names that are shown, and a blank at either side.
name_width == Max({row_specs[r].n : r \in Shown(row_specs)} \cup {sheet_name}) + 2

(* A line: what is in the column of names between two rules, and for each column
   that is shown its cell and another rule. *)
Line(first, cells) ==
  1 + first + Sum([c \in DOMAIN cells |-> IF col_specs[c].v THEN 1 + cells[c] ELSE 0]) + 1

\* The lines of dashes, and the one with the names of the columns.
Ruler(wide) == Line(wide, [c \in DOMAIN col_specs |-> col_specs[c].w])
Names(wide) ==
  Line(Adapted(wide, sheet_name),
       [c \in DOMAIN col_specs |-> Adapted(col_specs[c].w, col_specs[c].n)])

(* skeleton(): the names of rows are adapted for good, so that a second call
   finds them as wide as the first has made them; the data start anew. *)
skeleton ==
  /\ name_width <= MaxWide
  /\ row_specs' = [i \in DOMAIN row_specs |->
                     IF row_specs[i].v
                     THEN [row_specs[i] EXCEPT !.n = Adapted(name_width, @)]
                     ELSE row_specs[i]]
  /\ head' = <<Ruler(name_width), Names(name_width)>>
  /\ sepa' = <<Ruler(name_width)>> /\ foot' = <<Ruler(name_width)>>
  /\ all_data' = [r \in DOMAIN row_specs |-> [c \in DOMAIN col_specs |-> Zero]]
  /\ drawn' = TRUE
  /\ UNCHANGED <<sheet_name, col_specs>>

\* fill(), and a value assigned to what operator() refers to
fill(r, c, number) ==
  /\ drawn
  /\ all_data' = [all_data EXCEPT ![r][c] = number]
  /\ UNCHANGED <<sheet_name, row_specs, col_specs, head, sepa, foot, drawn>>

Next ==
  \/ clear \/ skeleton
  \/ \E n \in Name, v \in BOOLEAN : addRow(n, v) \/ \E w \in Width : addCol(n, w, v)
  \/ \E r \in DOMAIN row_specs, c \in DOMAIN col_specs, x \in Number : fill(r, c, x)

Spec == Init /\ [][Next]_vars

-----------------------------------------------------------------------------
\* The line of a row, and the widths of all the lines that make() writes.
RowLine(r) ==
  Line(row_specs[r].n,
       [c \in DOMAIN all_data[r] |-> Cell(col_specs[c], all_data[r][c])])

make ==
  ToSet(head) \cup ToSet(foot)
    \cup UNION {ToSet(sepa) \cup {RowLine(r)} : r \in Shown(row_specs)}

(* The type invariant: once drawn, the data have a place for every row and
   column there is, the ones that are hidden included. *)
TypeOK ==
  /\ sheet_name \in Nat /\ drawn \in BOOLEAN
  /\ row_specs \in Seq([n : Nat, v : BOOLEAN])
  /\ col_specs \in Seq([n : Nat, w : Nat, v : BOOLEAN])
  /\ \A line \in {head, sepa, foot} : line \in Seq(Nat)
  /\ drawn =>
       /\ DOMAIN all_data = DOMAIN row_specs
       /\ \A r \in DOMAIN all_data : DOMAIN all_data[r] = DOMAIN col_specs

(* Every line of the table is as wide as every other, whatever the numbers, the
   names of rows and the hidden rows and columns, and however often it has been
   drawn; if the columns are no narrower than their names and leave room for a
   digit between two blanks. *)
Aligned ==
  drawn /\ (\A c \in Shown(col_specs) : col_specs[c].w >= col_specs[c].n /\ col_specs[c].w > 2) =>
    Cardinality(make) = 1
=============================================================================
