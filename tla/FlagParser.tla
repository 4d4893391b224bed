----------------------------- MODULE FlagParser -----------------------------
(***************************************************************************)
(* The command-line flags of include/parser.h: a program registers flags   *)
(* (FlagBool .. FlagList), calls FlagParse(argc, argv), and uses the table *)
(* of values; context_reset, which the tests call, starts over.  All of it *)
(* is one global context, so what one parse leaves behind the next one     *)
(* finds.                                                                  *)
(*                                                                         *)
(* Grain: one step per argument, and one per flag it is compared with.     *)
(* An argument is a record: what its text is read as in the place of a     *)
(* flag, and its text, which is what it is in the place of a value.        *)
(* flag_parse also writes '\0' over the '=' of the caller's argv; as each  *)
(* call is given an argv of its own, nothing reads that afterwards.        *)
(***************************************************************************)
EXTENDS Integers, Sequences, SequencesExt, FiniteSetsExt

CONSTANTS
    Names,     \* names of flags
    Types,     \* types that are registered
    Texts,     \* texts that are values
    MaxFlags,  \* flags a program registers (bound; FLAGS_CAP in the code)
    MaxArgs,   \* arguments after the program's name (bound)
    MaxParses  \* calls of FlagParse (bound)

(***************************************************************************)
(* The texts and what the C library makes of them: Bits is the width an    *)
(* integer needs, "" is read as 0, and "1e999" is a number for strtof and  *)
(* strtod only.                                                            *)
(***************************************************************************)
Bits == [text \in {"", "1", "300", "70000", "5000000000", "20000000000000000000"} |->
           CASE text = "" -> 0       [] text = "1" -> 1      [] text = "300" -> 9
             [] text = "70000" -> 17 [] text = "5000000000" -> 33 [] OTHER -> 65]
Numerals == DOMAIN Bits
AllTexts == Numerals \cup {"-1", "1e999", "1K", "20000000000000000K", "true", "false", "abc"}

\* Width of each integer type; an int keeps one bit for its sign.
Width    == [UINT8 |-> 8, UINT16 |-> 16, UINT32 |-> 32, UINT64 |-> 64, INT |-> 31, SIZE |-> 64]
AllTypes == DOMAIN Width \cup {"BOOL", "FLOAT", "DOUBLE", "STR", "LIST"}

ASSUME FlagAssumption ==
    /\ Types \subseteq AllTypes /\ Texts \subseteq AllTexts
    /\ MaxFlags \in Nat /\ MaxArgs \in Nat /\ MaxParses \in Nat

Errors == {"UNKNOWN", "NO_VALUE", "INVALID_NUMBER", "INTEGER_OVERFLOW"}

VARIABLES
    flags,     \* flags[0 .. flags_count - 1]
    named,     \* program_name is set
    err, errName, errValue, \* flag_error, flag_error_name, flag_error_value
    rest,      \* rest_argv[0 .. rest_argc - 1]
    argv,      \* arguments not shifted yet
    pc,        \* where flag_parse is
    cur,       \* the argument being matched
    i,         \* the flag it is compared with
    found,     \* a flag matched
    ret,       \* what the last FlagParse returned, "none" once the table is changed after it
    calls,     \* FlagParse calls so far
    args,      \* (history) the argv of the last call
    base,      \* (history) the flags when it began
    mark       \* (history) arguments dealt with when the loop last came round

context == <<flags, named, err, errName, errValue, rest>>
vars    == <<context, argv, pc, cur, i, found, ret, calls, args, base, mark>>

----------------------------------------------------------------------------
(* Arguments *)

Word(text) == [kind |-> "word", name |-> "none", ignore |-> FALSE, eq |-> FALSE, value |-> "none", text |-> text]
Program    == Word("abc")
Stop       == [Word("--") EXCEPT !.kind = "stop"]      \* "--"
Help       == [Word("--help") EXCEPT !.kind = "help"]  \* "--h", "--help"
NoArg      == Word("none")

\* "-name", "-/name", "-name=value"; "-1" is one of them too.
FlagArg(name, ignore, eq, value) ==
    [kind |-> "flag", name |-> name, ignore |-> ignore, eq |-> eq, value |-> value, text |-> "-name"]

Arguments ==
    {Word(t) : t \in Texts \ {"-1"}} \cup {Stop, Help}
    \cup {[FlagArg("1", FALSE, FALSE, "none") EXCEPT !.text = t] : t \in Texts \cap {"-1"}}
    \cup {FlagArg(name, ignore, FALSE, "none") : name \in Names, ignore \in BOOLEAN}
    \cup {FlagArg(name, ignore, TRUE, t) : name \in Names, ignore \in BOOLEAN, t \in Texts}

\* What follows the program's name.
Argvs == UNION {[1 .. k -> Arguments] : k \in 0 .. MaxArgs}

----------------------------------------------------------------------------
(* What a text becomes as the value of a flag: a value, or an error *)

Ok(value)  == [ok |-> TRUE, is |-> value]
Bad(error) == [ok |-> FALSE, is |-> error]

AsBool(text) == IF text \in {"1", "true"} THEN Ok("true")
                ELSE IF text = "false" THEN Ok("false")
                ELSE Bad("UNKNOWN")

\* strtoull takes "-1" for 2^64 - 1, without an error.
AsUnsigned(width, text) ==
    IF text \notin Numerals \cup {"-1"} THEN Bad("INVALID_NUMBER")
    ELSE IF text = "-1" THEN IF width = 64 THEN Ok("2^64-1") ELSE Bad("INTEGER_OVERFLOW")
    ELSE IF Bits[text] > width THEN Bad("INTEGER_OVERFLOW")
    ELSE Ok(text)

AsInt(width, text) ==
    IF text = "-1" THEN Ok(text) ELSE AsUnsigned(width, text)

\* strtof and strtod return infinity on overflow, not the largest number.
AsReal(text) ==
    IF text = "1e999" THEN Ok("infinity")
    ELSE IF text \in Numerals \cup {"-1"} THEN Ok(text) ELSE Bad("INVALID_NUMBER")

\* The digits are looked at before the suffix, the product afterwards.
AsSize(text) ==
    CASE text = "1K" -> Ok("1024")
      [] text = "20000000000000000K" -> Bad("INTEGER_OVERFLOW")
      [] OTHER -> AsUnsigned(64, text)

Convert(type, text) ==
    CASE type = "BOOL" -> AsBool(text)
      [] type \in {"UINT8", "UINT16", "UINT32", "UINT64"} -> AsUnsigned(Width[type], text)
      [] type = "INT" -> AsInt(Width[type], text)
      [] type \in {"FLOAT", "DOUBLE"} -> AsReal(text)
      [] type = "SIZE" -> AsSize(text)
      [] OTHER -> Ok(text)

----------------------------------------------------------------------------
(* Registration and reset *)

Init ==
    /\ flags = <<>> /\ named = FALSE /\ rest = <<>>
    /\ err = "NO_ERROR" /\ errName = "none" /\ errValue = "none"
    /\ argv = <<>> /\ pc = "idle" /\ cur = NoArg /\ i = 1 /\ found = FALSE
    /\ ret = "none" /\ calls = 0 /\ args = <<>> /\ base = <<>> /\ mark = 0

Local == <<argv, pc, cur, i, found>>
Hist  == <<args, base, mark>>

\* The table is no longer what the last parse left.
Forget == ret' = "none" /\ args' = <<>> /\ base' = <<>> /\ mark' = 0

\* The error fields are not among what it resets.
ContextReset ==
    /\ pc = "idle"
    /\ flags' = <<>> /\ named' = FALSE /\ rest' = <<>>
    /\ Forget
    /\ UNCHANGED <<err, errName, errValue, Local, calls>>

\* Faulty variant: FLAG_ASSERT is compiled out.
Register_NoAssert(type, name, mandatory) ==
    /\ pc = "idle"
    /\ flags' = Append(flags, [type |-> type, name |-> name, mandatory |-> mandatory,
                               val |-> IF type = "LIST" THEN <<>> ELSE <<"default">>,
                               changed |-> FALSE])
    /\ Forget
    /\ UNCHANGED <<named, err, errName, errValue, rest, Local, calls>>

\* FlagBool, FlagUint8 .. FlagList: flag_new_flag_ and the default.
Register(type, name, mandatory) ==
    /\ pc = "idle" /\ Len(flags) < MaxFlags
    /\ flags' = Append(flags, [type |-> type, name |-> name, mandatory |-> mandatory,
                               val |-> IF type = "LIST" THEN <<>> ELSE <<"default">>,
                               changed |-> FALSE])
    /\ Forget
    /\ UNCHANGED <<named, err, errName, errValue, rest, Local, calls>>

----------------------------------------------------------------------------
(* flag_parse *)

\* argv[0] is taken for the program's name by the first parse only.
FlagParse ==
    /\ pc = "idle" /\ calls < MaxParses
    /\ \E given \in Argvs : argv' = IF named THEN <<Program>> \o given ELSE given
    /\ named' = TRUE
    /\ calls' = calls + 1
    /\ pc' = "args" /\ ret' = "none"
    /\ args' = argv' /\ base' = flags /\ mark' = 0
    /\ UNCHANGED <<flags, err, errName, errValue, rest, cur, i, found>>

Return(result) ==
    /\ pc' = "idle" /\ ret' = result
    /\ argv' = <<>> /\ cur' = NoArg /\ i' = 1 /\ found' = FALSE

\* The name is always told; only an unknown flag sets flag_error_value too.
Fail(error, value) ==
    /\ err' = error /\ errName' = cur.name /\ errValue' = value
    /\ Return("false")
    /\ UNCHANGED <<flags, named, rest, calls, Hist>>

\* Faulty variant: the argument that stops the parse is dropped.
TakeRest_Drops ==
    /\ pc = "args" /\ argv # <<>> /\ Head(argv).kind \in {"word", "stop"}
    /\ rest' = Tail(argv)
    /\ mark' = Len(args) - Len(argv)
    /\ Return("true")
    /\ UNCHANGED <<flags, named, err, errName, errValue, calls, args, base>>

\* The first argument that is no flag, or "--", ends the parse at once.
TakeRest ==
    /\ pc = "args" /\ argv # <<>> /\ Head(argv).kind \in {"word", "stop"}
    /\ rest' = argv
    /\ mark' = Len(args) - Len(argv)
    /\ Return("true")
    /\ UNCHANGED <<flags, named, err, errName, errValue, calls, args, base>>

TakeHelp ==
    /\ pc = "args" /\ argv # <<>> /\ Head(argv).kind = "help"
    /\ mark' = Len(args) - Len(argv)
    /\ Return("true")
    /\ UNCHANGED <<context, calls, args, base>>

TakeFlag ==
    /\ pc = "args" /\ argv # <<>> /\ Head(argv).kind = "flag"
    /\ cur' = Head(argv) /\ argv' = Tail(argv)
    /\ i' = 1 /\ found' = FALSE /\ pc' = "match"
    /\ mark' = Len(args) - Len(argv)
    /\ UNCHANGED <<context, ret, calls, args, base>>

Matches == pc = "match" /\ i <= Len(flags) /\ flags[i].name = cur.name

SkipFlag ==
    /\ pc = "match" /\ i <= Len(flags) /\ flags[i].name # cur.name
    /\ i' = i + 1
    /\ UNCHANGED <<context, argv, pc, cur, found, ret, calls, Hist>>

\* What follows "=", or the next argument, whatever it looks like.
HasValue == cur.eq \/ argv # <<>>
Value    == IF cur.eq THEN cur.value ELSE Head(argv).text

\* The value of an ignored flag must be well formed, except that of a bool.
Read == IF flags[i].type = "BOOL" /\ cur.ignore THEN Ok("ignored") ELSE Convert(flags[i].type, Value)

NoValue  == Matches /\ ~HasValue /\ Fail("NO_VALUE", errValue)
BadValue == Matches /\ HasValue /\ ~Read.ok /\ Fail(Read.is, errValue)

\* Faulty variant: the ignore prefix is forgotten.
Stores_Always(f, value) ==
    [f EXCEPT !.changed = TRUE, !.val = IF f.type = "LIST" THEN Append(@, value) ELSE <<value>>]

Stores(f, value) ==
    [f EXCEPT !.changed = TRUE,
              !.val = IF cur.ignore THEN @
                      ELSE IF f.type = "LIST" THEN Append(@, value) ELSE <<value>>]

\* The loop goes on: another flag of the same name takes a value too.
StoreValue ==
    /\ Matches /\ HasValue /\ Read.ok
    /\ flags' = [flags EXCEPT ![i] = Stores(@, Read.is)]
    /\ argv' = IF cur.eq THEN argv ELSE Tail(argv)
    /\ found' = TRUE /\ i' = i + 1
    /\ UNCHANGED <<named, err, errName, errValue, rest, pc, cur, ret, calls, Hist>>

NextArgument ==
    /\ pc = "match" /\ i > Len(flags) /\ found
    /\ pc' = "args" /\ cur' = NoArg /\ i' = 1 /\ found' = FALSE
    /\ UNCHANGED <<context, argv, ret, calls, Hist>>

UnknownFlag == pc = "match" /\ i > Len(flags) /\ ~found /\ Fail("UNKNOWN", cur.name)

Missing == {j \in 1 .. Len(flags) : flags[j].mandatory /\ ~flags[j].changed}

\* Only a parse that reaches the end looks for mandatory flags.
EndOfArgs ==
    /\ pc = "args" /\ argv = <<>>
    /\ mark' = Len(args)
    /\ IF Missing # {}
         THEN /\ err' = "NO_VALUE" /\ errName' = flags[Max(Missing)].name
              /\ Return("false") /\ UNCHANGED rest
         ELSE /\ rest' = <<>>
              /\ Return("true") /\ UNCHANGED <<err, errName>>
    /\ UNCHANGED <<flags, named, errValue, calls, args, base>>

----------------------------------------------------------------------------
Parsing == TakeRest \/ TakeHelp \/ TakeFlag \/ SkipFlag \/ NoValue \/ BadValue \/ StoreValue
           \/ NextArgument \/ UnknownFlag \/ EndOfArgs

Next == \/ ContextReset
        \/ \E type \in Types, name \in Names, mandatory \in BOOLEAN : Register(type, name, mandatory)
        \/ FlagParse
        \/ Parsing

Spec == Init /\ [][Next]_vars

----------------------------------------------------------------------------
TypeOK ==
    /\ \A j \in DOMAIN flags :
         /\ flags[j].type \in Types /\ flags[j].name \in Names
         /\ flags[j].type # "LIST" => Len(flags[j].val) = 1
    /\ Len(flags) <= MaxFlags /\ named \in BOOLEAN
    /\ err \in Errors \cup {"NO_ERROR"} /\ {errName, errValue} \subseteq Names \cup {"1", "none"}
    /\ pc \in {"idle", "args", "match"} /\ ret \in {"none", "true", "false"}
    /\ cur.kind \in {"flag", "word"} /\ i \in 1 .. Len(flags) + 1 /\ found \in BOOLEAN
    /\ calls \in 0 .. MaxParses /\ mark \in 0 .. Len(args)

\* Read from the left, an argument is a flag unless the flag before it took it for its value.
IsFlagAt[k \in 1 .. MaxArgs + 1] == k = 1 \/ ~(IsFlagAt[k - 1] /\ ~args[k - 1].eq)

Uses(name)    == {k \in 1 .. mark : IsFlagAt[k] /\ args[k].name = name}
ValueAt(k)    == IF args[k].eq THEN args[k].value ELSE args[k + 1].text
Kept(name)    == {k \in Uses(name) : ~args[k].ignore}

\* The n-th of a set of numbers, the smallest first.
Nth(S, n) == CHOOSE k \in {k \in S : Cardinality({m \in S : m <= k}) = n} : TRUE

Given(j) ==
    LET kept == Kept(flags[j].name)
        is(k) == Convert(flags[j].type, ValueAt(k)).is
    IN  IF flags[j].type = "LIST"
          THEN base[j].val \o [n \in 1 .. Cardinality(kept) |-> is(Nth(kept, n))]
          ELSE IF kept = {} THEN base[j].val ELSE <<is(Max(kept))>>

Distinct == \A j, k \in DOMAIN flags : flags[j].name = flags[k].name => j = k

(***************************************************************************)
(* However a parse ends, the table is what the arguments before its end    *)
(* say, read from the left: a flag has the last value it was given and did *)
(* not ignore, a list all of them in order, and a parse that fails keeps   *)
(* the flags before the one it fails on and nothing of that one (parser.h: *)
(* 362-772).  Flags registered under one name share a use of it and are    *)
(* left out.                                                               *)
(***************************************************************************)
TableIsArguments ==
    pc = "idle" /\ ret # "none" /\ Distinct =>
        \A j \in DOMAIN flags :
            /\ flags[j].val = Given(j)
            /\ flags[j].changed = (base[j].changed \/ Uses(flags[j].name) # {})

(***************************************************************************)
(* A parse that succeeds accounts for every argument: those it dealt with  *)
(* and the rest it hands back are the argument list, unless help was asked *)
(* for; and one that used them all has seen every mandatory flag (parser.h *)
(* 371-376, 774-789).                                                      *)
(***************************************************************************)
RestIsComplete ==
    pc = "idle" /\ ret = "true" /\ ~(mark < Len(args) /\ args[mark + 1] = Help) =>
        /\ rest = SubSeq(args, mark + 1, Len(args))
        /\ mark = Len(args) => Missing = {}

(***************************************************************************)
(* "ERROR: -%s: unknown flag" and "%s is not a valid flag" (parser.h:937-  *)
(* 938) are printed of one flag.                                           *)
(***************************************************************************)
ErrorIsOfOneFlag == pc = "idle" /\ ret = "false" /\ err = "UNKNOWN" => errValue = errName
=============================================================================
