------------------------------ MODULE MCFiles ------------------------------
(***************************************************************************)
(* ParamFile and CsvTable for TLC: the parameters and the table of one     *)
(* param_ctx.  A behaviour is one of four scenes, which share param_error, *)
(* the file and the place where the process is, and leave alone what       *)
(* belongs to the other kind of file:                                      *)
(*   "hand"   a .txt file written by hand is parsed, up to MaxOpen times   *)
(*   "save"   parameters are set, saved, cut off by a crash and parsed     *)
(*   "table"  a .csv file written by hand is parsed, and again             *)
(*   "rows"   a table is built, saved, cut off by a crash and parsed       *)
(***************************************************************************)
EXTENDS ParamFile, TLC

CONSTANTS ColumnNames, Cells, MAX_BIN, MaxRows, MaxCalls
VARIABLES scene, sep, names, cols, mem, count, calls, start

Csv == INSTANCE CsvTable WITH MaxLines <- MaxRows

ASSUME MCAssumption == Csv!CsvAssumption /\ "1" \in Cells /\ {"n", "m"} \subseteq ColumnNames

txtOnly == <<table, exists, val, changed, open, found, saves, base>>
csvOnly == <<sep, names, cols, mem, count, calls, start>>
allVars == <<scene, txtOnly, csvOnly, file, err, pc, k, ret, saved, torn, byHand, crashes>>

NameSymmetry == Permutations(Names)

\* Texts of each shape, good and bad.
Mixed == {NoText, Plain("3"), Plain("x"), Quoted("a"), List(<<"3">>), List(<<"3", "3">>)}

\* What the scenes start from: two parameters, of which strings are mandatory or
\* not; rows by hand under one name, which is enough to tell where they go; and
\* a header alone, of one column or two.
MCTables == {t \in Tables : /\ Len(t) = MaxParams
                            /\ \A i \in DOMAIN t : t[i].type = "UINT" => t[i].mandatory
                            /\ \A i \in DOMAIN t : t[i].type = "BOOL" => ~t[i].mandatory}
HandTables == {t \in MCTables : \A i \in DOMAIN t : t[i].type # "BOOL"}
HandRows == {Csv!WithRows("comma", h, rows) :
                h \in UpTo({"n"}, MAX_BIN + 1) \ {<<>>},
                rows \in UpTo(UpTo({"1", Csv!Blank, "x"}, MAX_BIN + 1), MaxRows - 1)}
Headers == {[sep |-> s, lines |-> <<h>>] : s \in Csv!Separators, h \in {<<"n">>, <<"n", "m">>}}

MCInit ==
    \/ /\ \/ scene = "hand" /\ InitWith(HandTables, HandFiles)
          \/ scene = "save" /\ InitWith(MCTables, {<<>>})
       /\ sep = "none" /\ names = <<>> /\ cols = 0 /\ mem = <<>> /\ count = 0
       /\ calls = 0 /\ start = 0
    \/ /\ \/ scene = "table" /\ Csv!InitWith(HandRows)
          \/ scene = "rows" /\ Csv!InitWith(Headers)
       /\ table = <<>> /\ exists = FALSE /\ val = <<>> /\ changed = <<>> /\ open = 0
       /\ found = FALSE /\ saves = 0 /\ base = <<>>

\* In "hand" no variable is set but by the parse; in "table" three calls are enough.
InTxt   == scene \in {"hand", "save"} /\ UNCHANGED <<scene, csvOnly>>
InSave  == scene = "save" /\ UNCHANGED <<scene, csvOnly>>
InTable == /\ scene \in {"table", "rows"} /\ UNCHANGED <<scene, txtOnly>>
           /\ scene = "table" /\ pc = "idle" => calls < 3
InRows  == scene = "rows" /\ UNCHANGED <<scene, txtOnly>>

MCNext ==
    \/ InTxt /\ Register
    \/ InSave /\ Crash
    \/ InSave /\ SaveNothing
    \/ InSave /\ SaveCannotOpen
    \/ InSave /\ SaveOpen
    \/ InSave /\ SaveParam
    \/ InSave /\ SaveClose
    \/ InTxt /\ ParseCannotOpen
    \/ InTxt /\ ParseOpen
    \/ InTxt /\ ParseOther
    \/ InTxt /\ ParseEnd
    \/ \E j \in 1 .. MaxParams : InSave /\ SetVariable(j)
    \/ \E j \in 1 .. MaxParams : InTxt /\ ParseParam(j)
    \/ \E j \in 1 .. MaxParams : InTxt /\ ParseFail(j)
    \/ \E j \in 1 .. MaxParams : InTxt /\ ParseDie(j)
    \/ \E s \in Csv!Separators : InTable /\ Csv!InitCSV(s)
    \/ \E row \in Csv!UpTo(Cells, MAX_BIN) : InTable /\ Csv!AddRowCSV(row)
          /\ (scene = "table" => "2" \notin {row[c] : c \in DOMAIN row})
    \/ InTable /\ Csv!ParseCannotOpen
    \/ InTable /\ Csv!ParseHeader
    \/ InTable /\ Csv!ParseRow
    \/ InTable /\ Csv!ParseRowFails
    \/ InTable /\ Csv!ParseEnd
    \/ InRows /\ Csv!SaveRefused
    \/ InRows /\ Csv!SaveHeader
    \/ InRows /\ Csv!SaveRow
    \/ InRows /\ Csv!SaveClose
    \/ InRows /\ Csv!Crash

MCSpec == MCInit /\ [][MCNext]_allVars

----------------------------------------------------------------------------
\* The properties of the two modules, each in its scenes.
Txt == scene \in {"hand", "save"}

\* The types of ParamFile and of CsvTable.
FilesTypeOK == IF Txt THEN TypeOK ELSE Csv!TypeOK

\* ParamFile!ValuesAreOfFile: each variable holds what the last good line of
\* its own says, wherever the parse ends; CsvTable!FullRowsAreRead: a line with
\* every cell is the row of its number.
HandFilesAreRead == IF Txt THEN ValuesAreOfFile ELSE Csv!FullRowsAreRead

\* CsvTable!ComesBack: a saved table is read back, or its part that a crash left.
TableComesBack == [][Txt \/ Csv!ComesBackStep]_allVars
=============================================================================
