------------------------------ MODULE CsvTable ------------------------------
(***************************************************************************)
(* The table of numbers of include/file_parser.h: InitCSV, ParamParse and  *)
(* ParamSave of a .csv file, AddRowCSV, GetCSVData.  The file outlives the *)
(* process, which may be killed in the middle of a save.                   *)
(*                                                                         *)
(* Grain: one step per line.  A line is the sequence of the cells between  *)
(* its separators: Blank an empty one, "x" no number, "cut" what is left   *)
(* of a number or a name.  No column's name contains another's.            *)
(***************************************************************************)
EXTENDS Integers, Sequences, FiniteSets, SequencesExt

CONSTANTS
    ColumnNames, \* names in headers
    Cells,       \* numbers
    MAX_BIN,     \* rows of a column, and columns
    MaxLines,    \* lines of a file written by hand (bound)
    MaxCalls,    \* calls that are not refused (bound)
    MaxCrashes   \* processes that are killed (bound)

Separators == {"comma", "semicolon"}
Blank      == ""  \* a cell, or a name, of no characters

CsvAssumption ==
    /\ {MAX_BIN, MaxLines, MaxCalls, MaxCrashes} \subseteq Nat /\ MAX_BIN > 0
    /\ {Blank, "x", "cut", "0", "bytes"} \cap (Cells \cup ColumnNames) = {}

VARIABLES
    file,   \* its separator and its lines
    sep,    \* column_sep, "none" before InitCSV
    names,  \* csv_data[].column_name
    cols,   \* col_count
    mem,    \* csv_data[].column_item, by row
    count,  \* item_count
    err,    \* param_error
    pc, k,  \* where the process is; the line it is at
    ret,    \* what the last call returned
    calls, crashes,
    saved,  \* (history) names and rows when the last save began
    torn,   \* (history) that save was not finished
    byHand, \* (history) the file was not written by this program
    start   \* (history) item_count when the last parse began

header  == <<sep, names, cols>>
data    == <<mem, count>>
history == <<saved, torn, byHand, start>>
vars    == <<file, header, data, err, pc, k, ret, calls, crashes, history>>

Idle == pc = "idle" /\ sep # "none"

NoRow    == [c \in 1 .. MAX_BIN |-> "0"]
UpTo(S, n) == UNION {[1 .. m -> S] : m \in 0 .. n}

\* A file written by hand: rows may be short, long or empty.
WithRows(s, h, rows) == [sep |-> s, lines |-> <<h>> \o rows]

HandFiles ==
    {WithRows(s, h, rows) :
        s \in Separators, h \in UpTo(ColumnNames, MAX_BIN + 1) \ {<<>>},
        rows \in UpTo(UpTo(Cells \cup {Blank, "x"}, MAX_BIN + 1), MaxLines - 1)}

\* The table is static: zero in every process.
Start ==
    /\ sep' = "none" /\ names' = [c \in 1 .. MAX_BIN |-> Blank] /\ cols' = 0
    /\ mem' = [r \in 1 .. MAX_BIN |-> NoRow] /\ count' = 0
    /\ err' = "NO_ERROR" /\ pc' = "idle" /\ k' = 0 /\ ret' = "none" /\ start' = 0

InitWith(files) ==
    /\ file \in files
    /\ sep = "none" /\ names = [c \in 1 .. MAX_BIN |-> Blank] /\ cols = 0
    /\ mem = [r \in 1 .. MAX_BIN |-> NoRow] /\ count = 0
    /\ err = "NO_ERROR" /\ pc = "idle" /\ k = 0 /\ ret = "none" /\ start = 0
    /\ calls = 0 /\ crashes = 0
    /\ saved = <<>> /\ torn = FALSE /\ byHand = TRUE

Init == InitWith(HandFiles)

\* Refuses one character for both separators; the rows are forgotten, not cleared.
InitCSV(s) ==
    /\ pc = "idle"
    /\ \/ /\ calls < MaxCalls /\ calls' = calls + 1
          /\ sep' = s /\ cols' = 0 /\ count' = 0 /\ ret' = "true" /\ UNCHANGED names
       \/ ret' = "false" /\ UNCHANGED <<header, count, calls>>
    /\ UNCHANGED <<file, mem, err, pc, k, crashes, history>>

\* No look at MAX_BIN: the cell of one row too far is in the next column's name.
AddRowCSV(row) ==
    /\ Idle
    /\ IF Len(row) # cols
         THEN ret' = "false" /\ UNCHANGED <<names, data, calls>>
         ELSE /\ calls < MaxCalls /\ calls' = calls + 1
              /\ ret' = "true"
              /\ count' = count + 1
              /\ IF count < MAX_BIN
                   THEN /\ mem' = [mem EXCEPT ![count + 1] =
                                     [c \in 1 .. MAX_BIN |-> IF c <= cols THEN row[c] ELSE @[c]]]
                        /\ UNCHANGED names
                   ELSE /\ names' = [c \in 1 .. MAX_BIN |-> IF c \in 2 .. cols + 1 THEN "bytes" ELSE names[c]]
                        /\ UNCHANGED mem
    /\ UNCHANGED <<file, sep, cols, err, pc, k, crashes, history>>

Cell(r, c) == IF r <= MAX_BIN THEN mem[r][c] ELSE "bytes"

\* The cells of the first column of that name; a row too far is read from a name.
GetCSVData(name) ==
    LET of == {c \in 1 .. cols : names[c] = name}
        i  == CHOOSE c \in of : \A d \in of : c <= d
    IN  IF of = {} THEN <<>> ELSE [r \in 1 .. count |-> Cell(r, i)]

----------------------------------------------------------------------------
(* param_parse_csv *)

\* The n-th smallest number of a set.
Nth(S, n) == CHOOSE i \in S : Cardinality({j \in S : j <= i}) = n

\* strtok_r: no token is empty; a line of another separator is one token.
Tokens(line) ==
    LET full == {c \in 1 .. Len(line) : line[c] # Blank}
    IN  IF Len(line) > 1 /\ file.sep # sep THEN <<"x">>
        ELSE [n \in 1 .. Cardinality(full) |-> line[Nth(full, n)]]

Return(result) == pc' = "idle" /\ k' = 0 /\ ret' = result

ParseCannotOpen ==
    /\ Idle
    /\ ret' = "false"
    /\ UNCHANGED <<file, header, data, err, pc, k, calls, crashes, history>>

\* Faulty variant: any number of columns is taken.
First_NoLimit(tokens) == tokens

\* Names, or cells, beyond the last column are dropped.
First(tokens) == SubSeq(tokens, 1, IF Len(tokens) < MAX_BIN THEN Len(tokens) ELSE MAX_BIN)

\* The header of an empty file is read from memory nobody wrote.
ParseHeader ==
    /\ Idle /\ calls < MaxCalls /\ calls' = calls + 1
    /\ \E h \in IF file.lines = <<>> THEN {<<>>, <<"bytes">>} ELSE {First(Tokens(file.lines[1]))} :
          /\ cols' = Len(h)
          /\ names' = [c \in 1 .. MAX_BIN |-> IF c <= Len(h) THEN h[c] ELSE names[c]]
    /\ pc' = "rows" /\ k' = 2 /\ ret' = "none" /\ start' = count
    /\ UNCHANGED <<file, sep, data, err, crashes, saved, torn, byHand>>

InRow   == pc = "rows" /\ k <= Len(file.lines)
Row     == First(Tokens(file.lines[k]))
Good    == SelectInSeq(Row \o <<"x">>, LAMBDA cell : cell = "x") - 1
TooMany == Row # <<>> /\ count >= MAX_BIN

\* Cells the line does not have keep what was there.
StoreCells ==
    mem' = IF Row = <<>> THEN mem
           ELSE [mem EXCEPT ![count + 1] = [c \in 1 .. MAX_BIN |-> IF c <= Good THEN Row[c] ELSE @[c]]]

\* Each line is a row, an empty one too.
ParseRow ==
    /\ InRow /\ ~TooMany /\ Good = Len(Row)
    /\ StoreCells
    /\ count' = count + 1
    /\ k' = k + 1
    /\ UNCHANGED <<file, header, err, pc, ret, calls, crashes, history>>

ParseRowFails ==
    /\ InRow
    /\ \/ TooMany /\ UNCHANGED mem
       \/ ~TooMany /\ Good < Len(Row) /\ StoreCells
    /\ err' = "INVALID_NUMBER"
    /\ Return("false")
    /\ UNCHANGED <<file, header, count, calls, crashes, history>>

ParseEnd ==
    /\ pc = "rows" /\ k > Len(file.lines)
    /\ err' = "NO_ERROR"
    /\ Return("true")
    /\ UNCHANGED <<file, header, data, calls, crashes, history>>

----------------------------------------------------------------------------
(* param_save_csv *)

SaveRefused ==
    /\ Idle
    /\ ret' = "false"
    /\ UNCHANGED <<file, header, data, err, pc, k, calls, crashes, history>>

\* Always commas, whatever InitCSV was given.
SaveHeader ==
    /\ Idle /\ cols # 0 /\ count # 0 /\ calls < MaxCalls
    /\ file' = [sep |-> "comma", lines |-> <<SubSeq(names, 1, cols)>>]
    /\ pc' = "save" /\ k' = 1 /\ ret' = "none"
    /\ calls' = calls + 1
    /\ saved' = [names |-> SubSeq(names, 1, cols), column |-> [c \in 1 .. cols |-> GetCSVData(names[c])]]
    /\ torn' = TRUE /\ byHand' = FALSE
    /\ UNCHANGED <<header, data, err, crashes, start>>

\* Faulty variant: the last column is not written.
SaveRow_Short ==
    /\ pc = "save" /\ k <= count
    /\ file' = [file EXCEPT !.lines = Append(@, [c \in 1 .. cols - 1 |-> Cell(k, c)])]
    /\ k' = k + 1
    /\ UNCHANGED <<header, data, err, pc, ret, calls, crashes, history>>

SaveRow ==
    /\ pc = "save" /\ k <= count
    /\ file' = [file EXCEPT !.lines = Append(@, [c \in 1 .. cols |-> Cell(k, c)])]
    /\ k' = k + 1
    /\ UNCHANGED <<header, data, err, pc, ret, calls, crashes, history>>

SaveClose ==
    /\ pc = "save" /\ k > count
    /\ torn' = FALSE
    /\ Return("true")
    /\ UNCHANGED <<file, header, data, err, calls, crashes, saved, byHand, start>>

(***************************************************************************)
(* What is left when the process is killed while it writes: some lines,    *)
(* and of the next some cells and perhaps a part of one.                   *)
(***************************************************************************)
Remains(line) == UNION {{SubSeq(line, 1, n), SubSeq(line, 1, n - 1) \o <<"cut">>} : n \in 1 .. Len(line)}

Crash ==
    /\ crashes < MaxCrashes
    /\ crashes' = crashes + 1
    /\ IF pc = "save"
         THEN \E n \in 0 .. Len(file.lines) :
                 \/ file' = [file EXCEPT !.lines = SubSeq(@, 1, n)]
                 \/ /\ n < Len(file.lines)
                    /\ \E part \in Remains(file.lines[n + 1]) :
                          file' = [file EXCEPT !.lines = Append(SubSeq(@, 1, n), part)]
         ELSE UNCHANGED file
    /\ Start
    /\ UNCHANGED <<calls, saved, torn, byHand>>

----------------------------------------------------------------------------
Next ==
    \/ \E s \in Separators : InitCSV(s)
    \/ \E row \in UpTo(Cells, MAX_BIN) : AddRowCSV(row)
    \/ ParseCannotOpen \/ ParseHeader \/ ParseRow \/ ParseRowFails \/ ParseEnd
    \/ SaveRefused \/ SaveHeader \/ SaveRow \/ SaveClose
    \/ Crash

Spec == Init /\ [][Next]_vars

----------------------------------------------------------------------------
TypeOK ==
    /\ file.sep \in Separators /\ sep \in Separators \cup {"none"}
    /\ DOMAIN names = 1 .. MAX_BIN /\ cols \in 0 .. MAX_BIN
    /\ mem \in [1 .. MAX_BIN -> [1 .. MAX_BIN -> Cells \cup {"0", "cut", "bytes"}]]
    /\ count \in Nat
    /\ err \in {"NO_ERROR", "INVALID_NUMBER"}
    /\ pc \in {"idle", "rows", "save"} /\ k \in Nat /\ ret \in {"none", "true", "false"}
    /\ calls \in 0 .. MaxCalls /\ crashes \in 0 .. MaxCrashes /\ start \in Nat
    /\ torn \in BOOLEAN /\ byHand \in BOOLEAN

(***************************************************************************)
(* While a file is read, every line that has as many cells as the header   *)
(* is the row of its number, whatever short, long or empty lines are       *)
(* between (file_parser.h:671-725).  What the row of a line with other     *)
(* cells holds is left open: its cells move to the left, and the last ones *)
(* keep what an earlier table had there.                                   *)
(***************************************************************************)
FullRowsAreRead ==
    pc = "rows" =>
        \A l \in 2 .. k - 1 :
            Len(Tokens(file.lines[l])) = cols /\ start + l - 1 <= MAX_BIN =>
                \A c \in 1 .. cols : mem[start + l - 1][c] = Tokens(file.lines[l])[c]

(***************************************************************************)
(* A saved table is read back as it was: its names, and by name its        *)
(* columns.  If the save was cut off, no more than the last row that is    *)
(* there is wrong; a number that was cut is a number (file_parser.h:671-   *)
(* 725, 808-835).  It needs a table that was empty, and commas, unless     *)
(* there is one column.                                                    *)
(***************************************************************************)
ComesBackStep ==
    pc = "rows" /\ ret' = "true" /\ ~byHand /\ start = 0 /\ file.lines # <<>>
       /\ IsInjective(saved.names) /\ (sep = "comma" \/ Len(saved.names) = 1) =>
          /\ ~torn => count = Len(saved.column[1])
          /\ count > 0 =>
               /\ SubSeq(names, 1, cols) = saved.names
               /\ \A c \in 1 .. cols, r \in 1 .. count :
                     ~torn \/ r < count => GetCSVData(saved.names[c])[r] = saved.column[c][r]

ComesBack == [][ComesBackStep]_vars
=============================================================================
