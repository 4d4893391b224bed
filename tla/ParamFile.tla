------------------------------ MODULE ParamFile ------------------------------
(***************************************************************************)
(* The parameter files (.txt) of include/file_parser.h: a program registers*)
(* its variables (ParamBool .. ParamBin), ParamSave writes NAME=value lines*)
(* from them and ParamParse reads such a file, saved or written by hand,   *)
(* into them.  The file outlives the process, which may be killed at any   *)
(* moment, also in the middle of a save.                                   *)
(*                                                                         *)
(* Grain: one step per line written or read.  A line is the name before    *)
(* its "=", the text after it, and which of the characters that can end a  *)
(* value follow: a closing quote, a closing bracket, a blank (space or end *)
(* of line).  Names are distinct and none is the tail of another, so that  *)
(* strstr finds a name only in a line of its own; no line has more than    *)
(* the 255 characters that param_parse_txt copies; and behind a uint there *)
(* are four bytes of nobody, which its unsigned long overwrites (l. 500).  *)
(***************************************************************************)
EXTENDS Integers, Sequences, FiniteSets

CONSTANTS
    Names,      \* names of parameters
    Types,      \* types that are registered
    Numbers,    \* numbers that variables hold
    Texts,      \* texts in files written by hand
    MaxParams,  \* parameters a program registers (bound; FLAGS_CAP in the code)
    MaxLines,   \* lines of a file written by hand (bound)
    ListCap,    \* items of a list that are read, 32 in the code
    ArrayCap,   \* items of a list variable, PARAM_LIST_INIT_CAP
    MaxOpen,    \* files a process may have open
    MaxSaves,   \* calls of ParamSave, over all processes (bound)
    MaxCrashes  \* processes that are killed (bound)

ListTypes == {"INTLIST", "UINTLIST"}
AllTypes  == {"BOOL", "UINT", "INT", "FLOAT", "STR", "BINARY"} \cup ListTypes

(***************************************************************************)
(* Words stand for what is written between separators: "big" is 3000000000 *)
(* and "-big" the same 32 bits as an int; "tiny" is a float below the six  *)
(* decimals of %.6f; "0A" is a byte in hexadecimal; "cut" is any part of a *)
(* value.                                                                  *)
(***************************************************************************)
Numerals == {"0", "3", "big", "-big"}
HexWords == {"00", "0A", "garbage"}
Words    == Numerals \cup {"", "x", "true", "false", "0A", "a"}
ItemsUpTo(n) == UNION {[1 .. k -> Words] : k \in 0 .. n}

Plain(word)  == [shape |-> "plain",  words |-> <<word>>]
Quoted(word) == [shape |-> "quoted", words |-> <<word>>]
List(items)  == [shape |-> "list",   words |-> items]
NoText       == Plain("")
AllTexts     == {Plain(w) : w \in Words} \cup {Quoted(w) : w \in {"", "a"}}
                \cup {List(s) : s \in ItemsUpTo(ArrayCap + 1)}

ASSUME ParamAssumption ==
    /\ Types \subseteq AllTypes /\ Numbers \subseteq {"0", "3", "big"} /\ Texts \subseteq AllTexts
    /\ {MaxParams, MaxLines, ListCap, ArrayCap, MaxOpen, MaxSaves, MaxCrashes} \subseteq Nat
    /\ ListCap <= ArrayCap
    /\ "other" \notin Names

VARIABLES
    table,   \* the parameters the program registers, in order
    file,    \* the lines of the file
    exists,  \* there is one
    val,     \* the variables of the parameters registered so far
    changed, \* has_changed of each
    err,     \* param_error
    open,    \* files that were opened and never closed
    pc, k,   \* where the process is; the line it is at
    found,   \* a line named a parameter
    ret,     \* what the last call returned
    saves, crashes,
    saved,   \* (history) the variables when the last save began
    torn,    \* (history) that save was not finished
    byHand,  \* (history) the file was not written by this program
    base     \* (history) the variables when the parse began

disk    == <<file, exists>>
context == <<val, changed, err>>
history == <<saved, torn, byHand, base>>
vars    == <<table, disk, context, open, pc, k, found, ret, saves, crashes, history>>

Count == Len(val)
Idle  == pc = "idle"

----------------------------------------------------------------------------
(* Lines *)

Closing(shape) == CASE shape = "quoted" -> {"quote"} [] shape = "list" -> {"bracket"} [] OTHER -> {}

Line(key, text, ends) == [key |-> key, text |-> text, ends |-> ends]

\* Faulty variant: one separator is ever written after the last item.
SavedEnds_NoBracket(text) ==
    {"blank"} \cup IF Len(text.words) <= 1 THEN Closing(text.shape) \ {"bracket"} ELSE Closing(text.shape)

\* What ends a value that was saved: the bracket is written with the last item.
SavedEnds(text) ==
    {"blank"} \cup IF text.words = <<>> THEN {} ELSE Closing(text.shape)

\* A line written by hand ends in a blank, except the last of its file.
HandLines == (UNION {{Line(key, text, ends) : key \in Names, ends \in SUBSET ({"blank"} \cup Closing(text.shape))}
                        : text \in Texts}) \cup {Line("other", NoText, {"blank"})}
IsHandFile(lines) == \A j \in 1 .. Len(lines) - 1 : "blank" \in lines[j].ends

(***************************************************************************)
(* What is left of a line when the process is killed while it is written:  *)
(* all of it, its value but not what follows, or a part of the value.      *)
(***************************************************************************)
Remains(line) ==
    {line, [line EXCEPT !.ends = @ \ {"blank"}],
     [line EXCEPT !.ends = {}, !.text = NoText], [line EXCEPT !.ends = {}, !.text = Plain("cut")]}

----------------------------------------------------------------------------
(* What a text becomes as the value of a parameter *)

Store(value) == [does |-> "store", value |-> value]  \* and has_changed
Keep         == [does |-> "keep",  value |-> <<>>]   \* has_changed only
Items(value) == [does |-> "items", value |-> value]  \* without has_changed
Skip         == [does |-> "skip",  value |-> <<>>]
Error(code)  == [does |-> "fail",  value |-> <<code>>]
Dies         == [does |-> "die",   value |-> <<>>]

ReadBool(text) ==
    CASE text = Plain("true") -> Store(<<"true">>)
      [] text \in {Plain("false"), Plain("0")} -> Store(<<"false">>)
      [] OTHER -> Error("UNKNOWN")

\* atoi: no number is 0, and too large a one is truncated.
ReadInt(text) ==
    Store(IF text.shape # "plain" \/ text.words[1] \notin Numerals THEN <<"0">>
          ELSE IF text = Plain("big") THEN <<"-big">> ELSE text.words)

\* strtoul takes no text for 0, and a minus sign.
ReadUint(text) ==
    CASE text = NoText -> Store(<<"0">>)
      [] text = Plain("-big") -> Store(<<"big">>)
      [] text.shape = "plain" /\ text.words[1] \in Numerals \ {"-big"} -> Store(text.words)
      [] OTHER -> Error("INVALID_NUMBER")

ReadFloat(text) ==
    CASE text = NoText -> Store(<<"0">>)
      [] text.shape = "plain" /\ text.words[1] \in Numerals -> Store(text.words)
      [] OTHER -> Error("INVALID_NUMBER")

ReadStr(text) == Store(text.words)

(***************************************************************************)
(* Two digits at a time until val_end is met: an odd number of characters  *)
(* jumps over it and on through the memory.  temp[2] is never written, so  *)
(* a byte may come out as another.                                         *)
(***************************************************************************)
ReadBinary(text) ==
    CASE text = NoText -> {Keep}
      [] text.shape = "plain" /\ text.words[1] \in HexWords -> {Store(text.words), Store(<<"garbage">>)}
      [] OTHER -> {Store(<<"garbage">>), Dies}

IsItem(type, word) == word \in {"0", "3"} \cup IF type = "INTLIST" THEN {"-big"} ELSE {"big"}

\* The items before the first that is bad, or one too many, are stored.
IsGood(type, items, n) == n <= ListCap /\ \A j \in 1 .. n : IsItem(type, items[j])
ReadList(type, text) ==
    LET good == CHOOSE n \in 0 .. Len(text.words) :
                    /\ IsGood(type, text.words, n)
                    /\ n < Len(text.words) => ~IsGood(type, text.words, n + 1)
    IN  IF text.shape # "list" THEN Skip
        ELSE IF text.words = <<>> THEN Keep
        ELSE IF good = Len(text.words) THEN Store(text.words)
        ELSE IF good = 0 THEN Skip
        ELSE Items(SubSeq(text.words, 1, good))

\* What ends the value: a comment may follow all but a string and a list.
Terminator(type) == CASE type = "STR" -> "quote" [] type \in ListTypes -> "bracket" [] OTHER -> "blank"

Convert(type, text) ==
    CASE type = "BOOL"   -> {ReadBool(text)}
      [] type = "INT"    -> {ReadInt(text)}
      [] type = "UINT"   -> {ReadUint(text)}
      [] type = "FLOAT"  -> {ReadFloat(text)}
      [] type = "STR"    -> {ReadStr(text)}
      [] type = "BINARY" -> ReadBinary(text)
      [] OTHER           -> {ReadList(type, text)}

\* Faulty variant: the end of the file ends a value too.
Outcomes_AtEof(type, line) ==
    IF Terminator(type) \notin line.ends /\ type \in ListTypes \cup {"STR"} THEN {Skip}
    ELSE Convert(type, line.text)

\* Without it a list dereferences NULL + 1; a string that is cut after the "="
\* is looked for behind the end of the line, where an older line may be.
Outcomes(type, line) ==
    IF Terminator(type) \notin line.ends
      THEN IF type \in ListTypes THEN {Dies}
           ELSE IF type = "STR" /\ line.ends = {} /\ line.text = NoText THEN {Skip, Store(<<"stale">>)}
           ELSE {Skip}
      ELSE Convert(type, line.text)

----------------------------------------------------------------------------
(* What a value becomes in the file *)

\* %d of a uint, %.6f of a float.
SavedWord(type, word) ==
    CASE type \in {"UINT", "UINTLIST"} /\ word = "big" -> "-big"
      [] type = "FLOAT" /\ word = "tiny" -> "0"
      [] OTHER -> word

SavedText(type, value) ==
    [shape |-> CASE type = "STR" -> "quoted" [] type \in ListTypes -> "list" [] OTHER -> "plain",
     words |-> [j \in DOMAIN value |-> SavedWord(type, value[j])]]

SavedLine(j, value) ==
    LET text == SavedText(table[j].type, value) IN Line(table[j].name, text, SavedEnds(text))

----------------------------------------------------------------------------
(* The program *)

\* Values the program gives its variables; a string is a buffer, in which
\* registration leaves the bytes of a pointer.
Default(type) ==
    CASE type = "BOOL" -> <<"false">> [] type = "STR" -> <<"pointer">> [] type = "BINARY" -> <<"00">>
      [] type \in ListTypes -> <<>> [] OTHER -> <<"0">>

Signed(word) == IF word = "big" THEN "-big" ELSE word
Values(type) ==
    CASE type = "BOOL"   -> {<<"true">>, <<"false">>}
      [] type = "UINT"   -> {<<w>> : w \in Numbers}
      [] type = "INT"    -> {<<Signed(w)>> : w \in Numbers}
      [] type = "FLOAT"  -> {<<w>> : w \in Numbers \cup {"tiny"}}
      [] type = "STR"    -> {<<"a">>, <<"">>}
      [] type = "BINARY" -> {<<"00">>, <<"0A">>}
      [] type = "INTLIST"  -> UNION {[1 .. n -> {Signed(w) : w \in Numbers}] : n \in 0 .. ArrayCap}
      [] type = "UINTLIST" -> UNION {[1 .. n -> Numbers] : n \in 0 .. ArrayCap}

\* Only lists and binaries are mandatory whether the program says so or not.
Param == {p \in [name : Names, type : Types, mandatory : BOOLEAN] :
             p.type \in ListTypes \cup {"BINARY"} => p.mandatory}
IsTable(t) == \A i, j \in 1 .. Len(t) : t[i].name = t[j].name => i = j

UpTo(S, n) == UNION {[1 .. m -> S] : m \in 0 .. n}

Fresh == /\ val = <<>> /\ changed = <<>> /\ err = "NO_ERROR" /\ open = 0
         /\ pc = "idle" /\ k = 0 /\ found = FALSE /\ ret = "none" /\ base = <<>>

Tables    == {t \in UpTo(Param, MaxParams) : IsTable(t)}
HandFiles == {f \in UpTo(HandLines, MaxLines) : IsHandFile(f)}

InitWith(tables, files) ==
    /\ table \in tables /\ file \in files
    /\ exists \in BOOLEAN /\ (~exists => file = <<>>)
    /\ Fresh
    /\ saves = 0 /\ crashes = 0
    /\ saved = <<>> /\ torn = FALSE /\ byHand = TRUE

Init == InitWith(Tables, HandFiles)

\* ParamBool .. ParamBin, each with its param_new_*_.
Register ==
    /\ Idle /\ Count < Len(table)
    /\ val' = Append(val, Default(table[Count + 1].type))
    /\ changed' = Append(changed, FALSE)
    /\ ret' = "none"
    /\ UNCHANGED <<table, disk, err, open, pc, k, found, saves, crashes, history>>

SetVariable(j) ==
    /\ Idle /\ j <= Count
    /\ \E value \in Values(table[j].type) : val' = [val EXCEPT ![j] = value]
    /\ ret' = "none"
    /\ UNCHANGED <<table, disk, changed, err, open, pc, k, found, saves, crashes, history>>

\* The process is gone and a new one starts; it registers its parameters again.
Restart ==
    /\ val' = <<>> /\ changed' = <<>> /\ err' = "NO_ERROR" /\ open' = 0
    /\ pc' = "idle" /\ k' = 0 /\ found' = FALSE /\ ret' = "none" /\ base' = <<>>

Crash ==
    /\ crashes < MaxCrashes
    /\ crashes' = crashes + 1
    /\ IF pc = "save"
         THEN \E n \in 0 .. Len(file) :
                 file' \in {SubSeq(file, 1, n)} \cup
                           {Append(SubSeq(file, 1, n), part) :
                              part \in IF n < Len(file) THEN Remains(file[n + 1]) ELSE {}}
         ELSE UNCHANGED file
    /\ Restart
    /\ UNCHANGED <<table, exists, saves, saved, torn, byHand>>

----------------------------------------------------------------------------
(* param_save_txt *)

SaveNothing ==
    /\ Idle /\ Count = 0
    /\ ret' = "not saved"
    /\ UNCHANGED <<table, disk, context, open, pc, k, found, saves, crashes, history>>

\* fopen fails, and fclose is called with NULL.
SaveCannotOpen ==
    /\ Idle /\ Count > 0 /\ open = MaxOpen
    /\ Restart
    /\ UNCHANGED <<table, disk, saves, crashes, saved, torn, byHand>>

\* fopen(.., "w") empties the file.
SaveOpen ==
    /\ Idle /\ Count > 0 /\ open < MaxOpen /\ saves < MaxSaves
    /\ file' = <<>> /\ exists' = TRUE
    /\ pc' = "save" /\ k' = 1 /\ ret' = "none"
    /\ saves' = saves + 1
    /\ saved' = val /\ torn' = TRUE /\ byHand' = FALSE
    /\ UNCHANGED <<table, context, open, found, crashes, base>>

SaveParam ==
    /\ pc = "save" /\ k <= Count
    /\ file' = Append(file, SavedLine(k, val[k]))
    /\ k' = k + 1
    /\ UNCHANGED <<table, exists, context, open, pc, found, ret, saves, crashes, history>>

SaveClose ==
    /\ pc = "save" /\ k > Count
    /\ pc' = "idle" /\ k' = 0 /\ ret' = "true"
    /\ torn' = FALSE
    /\ UNCHANGED <<table, disk, context, open, found, saves, crashes, saved, byHand, base>>

----------------------------------------------------------------------------
(* param_parse_txt *)

Return(result) == pc' = "idle" /\ k' = 0 /\ found' = FALSE /\ ret' = result /\ base' = <<>>

\* The name does not say .txt, there is no such file, or it cannot be opened;
\* none of them is an error to param_error.
ParseCannotOpen ==
    /\ Idle
    /\ \E reason \in {"name", "absent", "handles"} :
          /\ reason = "absent" => ~exists
          /\ reason = "handles" => exists /\ open = MaxOpen
          /\ ret' = IF reason = "name" THEN "not txt" ELSE "file not found"
    /\ UNCHANGED <<table, disk, context, open, pc, k, found, saves, crashes, history>>

\* The file is never closed again.
ParseOpen ==
    /\ Idle /\ exists /\ open < MaxOpen
    /\ open' = open + 1
    /\ pc' = "parse" /\ k' = 1 /\ found' = FALSE /\ ret' = "none"
    /\ base' = val
    /\ UNCHANGED <<table, disk, context, saves, crashes, saved, torn, byHand>>

InLine(j) == pc = "parse" /\ k <= Len(file) /\ j <= Count /\ file[k].key = table[j].name

\* A comment, an empty line, or the name of no parameter.
ParseOther ==
    /\ pc = "parse" /\ k <= Len(file) /\ \A j \in 1 .. Count : ~InLine(j)
    /\ k' = k + 1
    /\ UNCHANGED <<table, disk, context, open, pc, found, ret, saves, crashes, history>>

\* Faulty variant: a value that was set is not set again.
ParseParam_FirstWins(j) ==
    /\ InLine(j)
    /\ found' = TRUE
    /\ \E o \in Outcomes(table[j].type, file[k]) :
          /\ o.does \in {"store", "keep", "items", "skip"}
          /\ val' = IF o.does \in {"store", "items"} /\ ~changed[j] THEN [val EXCEPT ![j] = o.value] ELSE val
          /\ changed' = IF o.does \in {"store", "keep"} THEN [changed EXCEPT ![j] = TRUE] ELSE changed
    /\ k' = k + 1
    /\ UNCHANGED <<table, disk, err, open, pc, ret, saves, crashes, history>>

ParseParam(j) ==
    /\ InLine(j)
    /\ found' = TRUE
    /\ \E o \in Outcomes(table[j].type, file[k]) :
          /\ o.does \in {"store", "keep", "items", "skip"}
          /\ val' = IF o.does \in {"store", "items"} THEN [val EXCEPT ![j] = o.value] ELSE val
          /\ changed' = IF o.does \in {"store", "keep"} THEN [changed EXCEPT ![j] = TRUE] ELSE changed
    /\ k' = k + 1
    /\ UNCHANGED <<table, disk, err, open, pc, ret, saves, crashes, history>>

\* Return at once: what the lines before stored stays.
ParseFail(j) ==
    /\ InLine(j)
    /\ \E o \in Outcomes(table[j].type, file[k]) : o.does = "fail" /\ err' = o.value[1]
    /\ Return("false")
    /\ UNCHANGED <<table, disk, val, changed, open, saves, crashes, saved, torn, byHand>>

ParseDie(j) ==
    /\ InLine(j)
    /\ Dies \in Outcomes(table[j].type, file[k])
    /\ Restart
    /\ UNCHANGED <<table, disk, saves, crashes, saved, torn, byHand>>

\* Faulty variant: has_changed is not looked at.
Missing_None == {}

Missing == {j \in 1 .. Count : table[j].mandatory /\ ~changed[j]}

ParseEnd ==
    /\ pc = "parse" /\ k > Len(file)
    /\ IF ~found THEN err' = "UNKNOWN" /\ Return("false")
       ELSE IF Missing # {} THEN err' = "NO_VALUE" /\ Return("false")
       ELSE UNCHANGED err /\ Return("true")
    /\ UNCHANGED <<table, disk, val, changed, open, saves, crashes, saved, torn, byHand>>

----------------------------------------------------------------------------
Next ==
    \/ Register \/ Crash
    \/ SaveNothing \/ SaveCannotOpen \/ SaveOpen \/ SaveParam \/ SaveClose
    \/ ParseCannotOpen \/ ParseOpen \/ ParseOther \/ ParseEnd
    \/ \E j \in 1 .. MaxParams : SetVariable(j) \/ ParseParam(j) \/ ParseFail(j) \/ ParseDie(j)

Spec == Init /\ [][Next]_vars

----------------------------------------------------------------------------
TypeOK ==
    /\ table \in Seq(Param) /\ Len(table) <= MaxParams
    /\ \A j \in 1 .. Len(file) : file[j].key \in Names \cup {"other"} /\ file[j].ends \subseteq {"quote", "bracket", "blank"}
    /\ exists \in BOOLEAN /\ (~exists => file = <<>>)
    /\ Count <= Len(table) /\ changed \in [1 .. Count -> BOOLEAN]
    /\ \A j \in 1 .. Count : table[j].type \notin ListTypes => Len(val[j]) = 1
    /\ \A j \in 1 .. Count : table[j].type \in ListTypes => Len(val[j]) <= ArrayCap
    /\ err \in {"NO_ERROR", "UNKNOWN", "NO_VALUE", "INVALID_NUMBER"}
    /\ open \in 0 .. MaxOpen /\ saves \in 0 .. MaxSaves /\ crashes \in 0 .. MaxCrashes
    /\ pc \in {"idle", "save", "parse"} /\ k \in Nat /\ found \in BOOLEAN
    /\ ret \in {"none", "true", "false", "not saved", "not txt", "file not found"}
    /\ torn \in BOOLEAN /\ byHand \in BOOLEAN /\ Len(saved) <= Len(table) /\ Len(base) <= Count

\* The lines before the one the parse is at that give parameter j a value.
Gives(j, l) == {o.value : o \in {o \in Outcomes(table[j].type, file[l]) : o.does \in {"store", "items"}}}
Givers(j)   == {l \in 1 .. k - 1 : file[l].key = table[j].name /\ Gives(j, l) # {}}
IsCertain(j) == \A l \in 1 .. k - 1 : Cardinality(Outcomes(table[j].type, file[l])) = 1

(***************************************************************************)
(* While a file is read, each variable holds what the last good line of    *)
(* its own says, and what it held before the parse if there is none: a bad *)
(* line, or that of another parameter, takes nothing from it, and this is  *)
(* what is left when a later line ends the parse (file_parser.h:426-536).  *)
(* The values that depend on memory nobody wrote are left out.             *)
(***************************************************************************)
ValuesAreOfFile ==
    pc = "parse" =>
        \A j \in {j \in 1 .. Count : IsCertain(j)} :
            IF Givers(j) = {} THEN val[j] = base[j]
            ELSE \E l \in Givers(j) : val[j] \in Gives(j, l) /\ \A m \in Givers(j) : m <= l

(***************************************************************************)
(* What the format keeps: a float of six decimals, lists that are not      *)
(* empty, of no more items than are read and of unsigned ones below 2^31,  *)
(* and no binaries, whose bytes are read together with one that was never  *)
(* written.                                                                *)
(***************************************************************************)
Survives(type, value) ==
    CASE type = "FLOAT" -> value # <<"tiny">>
      [] type = "BINARY" -> FALSE
      [] type \in ListTypes ->
            /\ Len(value) \in 1 .. ListCap
            /\ type = "UINTLIST" => \A n \in DOMAIN value : value[n] # "big"
      [] OTHER -> TRUE

(***************************************************************************)
(* A file the program saved, whole or cut off by a crash anywhere, never   *)
(* gives a variable a wrong value: what is read from it is what was saved, *)
(* except for a string, which may be read from behind the end of a line    *)
(* that was cut (file_parser.h:437-474, 731-805).                          *)
(***************************************************************************)
ReadsWhatWasSaved ==
    [][\A j \in 1 .. Count :
          pc = "parse" /\ Len(val') = Count /\ val'[j] # val[j] /\ ~byHand
          /\ Survives(table[j].type, saved[j])
            => val'[j] = saved[j] \/ (torn /\ table[j].type = "STR")]_vars

(***************************************************************************)
(* When a parse of a saved file returns true, the variables are what they  *)
(* were when the save began; after a save that a crash cut off, the        *)
(* mandatory ones are (file_parser.h:539-556).                             *)
(***************************************************************************)
Restores ==
    [][pc = "parse" /\ ret' = "true" /\ ~byHand =>
          \A j \in 1 .. Len(saved) :
              (/\ j <= Count
               /\ Survives(table[j].type, saved[j])
               /\ ~torn \/ (table[j].mandatory /\ table[j].type # "STR"))
              => val[j] = saved[j]]_vars

(***************************************************************************)
(* Reading a file the program saved kills it only if the save was cut off  *)
(* or a list was empty (file_parser.h:459-460, 777-792).                   *)
(***************************************************************************)
SavedFileIsSafe ==
    [][pc = "parse" /\ val # <<>> /\ val' = <<>> /\ crashes' = crashes /\ ~byHand =>
          torn \/ \E j \in 1 .. Len(saved) : table[j].type \in ListTypes /\ saved[j] = <<>>]_vars
=============================================================================
