-------------------------- MODULE FlagParserProof --------------------------
(***************************************************************************)
(* Theorems about FlagParser, for every set of names, types and texts and  *)
(* any bounds.                                                             *)
(***************************************************************************)
EXTENDS FlagParser, SequenceTheorems, FiniteSetTheorems, WellFoundedInduction, TLAPS

\* A bounded set of numbers that is not empty has a largest one.
LEMMA HasLargest ==
  ASSUME NEW n \in Nat, NEW S, S \subseteq 0 .. n, S # {}
  PROVE  \E m \in S : \A j \in S : j <= m
  <1> DEFINE T == {n - j : j \in S}
  <1>1. T \subseteq Nat /\ T # {}
    <2>1. \A j \in S : n - j \in Nat
      OBVIOUS
    <2> QED
      BY <2>1
  <1>2. PICK x \in T : \A y \in T : ~(<<y, x>> \in OpToRel(<, Nat))
    BY <1>1, NatLessThanWellFounded, WFMin
  <1>3. \A y \in T : ~(y < x)
    BY <1>1, <1>2 DEF OpToRel
  <1>4. PICK m \in S : x = n - m
    OBVIOUS
  <1>5. \A j \in S : m >= j
    BY <1>3, <1>4
  <1> QED
    BY <1>5

\* It is the largest whatever way it is shown to be.
LEMMA MaxIsLargest ==
  ASSUME NEW n \in Nat, NEW S, S \subseteq 0 .. n, NEW m \in S, \A j \in S : j <= m
  PROVE  Max(S) = m
  <1> DEFINE P(x) == x \in S /\ \A y \in S : x >= y
  <1>1. P(m)
    OBVIOUS
  <1>2. ASSUME NEW x, P(x) PROVE x = m
    BY <1>2
  <1>3. Max(S) = CHOOSE x : P(x)
    BY DEF Max
  <1> HIDE DEF P
  <1> QED
    BY <1>1, <1>2, <1>3

\* The largest of a set of flags (flag_parse's last missing one) is one of them.
LEMMA MaxIsMember ==
  ASSUME NEW n \in Nat, NEW S, S \subseteq 1 .. n, S # {}
  PROVE  Max(S) \in S
  <1>1. S \subseteq 0 .. n
    OBVIOUS
  <1>2. PICK m \in S : \A j \in S : j <= m
    BY <1>1, HasLargest
  <1> QED
    BY <1>1, <1>2, MaxIsLargest

\* t is what is left of s after some of its elements.
IsRest(t, s) == Len(t) <= Len(s) /\ t = SubSeq(s, Len(s) - Len(t) + 1, Len(s))

\* Before any shift the rest is the whole argument list.
LEMMA WholeIsRest ==
  ASSUME NEW S, NEW s \in Seq(S)
  PROVE  IsRest(s, s)
  BY SubSeqFull DEF IsRest

\* A shift (flag_shift_args) takes the next argument and leaves a rest.
LEMMA TailIsRest ==
  ASSUME NEW S, NEW s \in Seq(S), NEW t \in Seq(S), IsRest(t, s), t # <<>>
  PROVE  /\ IsRest(Tail(t), s)
         /\ Head(t) = s[Len(s) - Len(t) + 1]
         /\ Len(t) \in 1 .. Len(s)
  <1> DEFINE m == Len(s) - Len(t) + 1
  <1>1. /\ Len(t) \in Nat /\ Len(s) \in Nat /\ Len(t) # 0 /\ Len(t) <= Len(s)
        /\ Len(Tail(t)) = Len(t) - 1
    BY LenProperties, EmptySeq, HeadTailProperties DEF IsRest
  <1>2. m \in 1 .. Len(s) /\ Len(s) \in m .. Len(s)
    BY <1>1
  <1>3. Head(t) = s[m] /\ Tail(t) = SubSeq(s, m + 1, Len(s))
    <2>1. Head(SubSeq(s, m, Len(s))) = s[m] /\ Tail(SubSeq(s, m, Len(s))) = SubSeq(s, m + 1, Len(s))
      BY <1>2, HeadTailOfSubSeq
    <2> QED
      BY <2>1 DEF IsRest
  <1>4. m + 1 = Len(s) - Len(Tail(t)) + 1 /\ Len(Tail(t)) <= Len(s)
    BY <1>1
  <1> QED
    BY <1>1, <1>3, <1>4 DEF IsRest

----------------------------------------------------------------------------
(* Arguments and values *)

Arg == Arguments \cup {Program, NoArg}

\* What the parser relies on of an argument.
LEMMA ArgFacts ==
  ASSUME NEW a \in Arg
  PROVE  /\ a.kind \in {"word", "stop", "help", "flag"}
         /\ a.kind = "flag" => a.name \in Names \cup {"1"}
         /\ a.kind = "help" => a = Help
  <1> DEFINE Words == {Word(t) : t \in Texts \ {"-1"}}
             Ones  == {[FlagArg("1", FALSE, FALSE, "none") EXCEPT !.text = t] : t \in Texts \cap {"-1"}}
             Bare  == {FlagArg(name, ignore, FALSE, "none") : name \in Names, ignore \in BOOLEAN}
             Equal == {FlagArg(name, ignore, TRUE, t) : name \in Names, ignore \in BOOLEAN, t \in Texts}
             Goal  == /\ a.kind \in {"word", "stop", "help", "flag"}
                      /\ a.kind = "flag" => a.name \in Names \cup {"1"}
                      /\ a.kind = "help" => a = Help
  <1>1. a \in {Program, NoArg} => Goal
    BY DEF Word, Program, NoArg
  <1>2. a \in Words => Goal
    BY DEF Word
  <1>3. a \in {Stop, Help} => Goal
    BY DEF Word, Stop, Help
  <1>4. a \in Ones => Goal
    BY DEF Word, FlagArg, NoArg
  <1>5. a \in Bare => Goal
    BY DEF Word, FlagArg, NoArg
  <1>6. a \in Equal => Goal
    BY DEF Word, FlagArg, NoArg
  <1>7. Arguments = Words \cup {Stop, Help} \cup Ones \cup Bare \cup Equal
    BY DEF Arguments
  <1> HIDE DEF Words, Ones, Bare, Equal, Goal
  <1>8. a \in {Program, NoArg} \/ a \in Words \/ a \in {Stop, Help} \/ a \in Ones \/ a \in Bare \/ a \in Equal
    BY <1>7, Zenon DEF Arg
  <1>9. Goal
    BY <1>1, <1>2, <1>3, <1>4, <1>5, <1>6, <1>8, Zenon
  <1> QED
    BY <1>9 DEF Goal

\* What a caller passes is a sequence of arguments.
LEMMA GivenIsSeq == Argvs \subseteq Seq(Arg)
  <1> SUFFICES ASSUME NEW k \in Nat, NEW g \in [1 .. k -> Arguments] PROVE g \in Seq(Arg)
    BY FlagAssumption DEF Argvs
  <1>1. g \in Seq(Arguments)
    BY SeqDef
  <1> QED
    BY <1>1, SeqMonotonic DEF Arg

\* A conversion gives a value or an error.
IsResult(r) == (\E v : r = Ok(v)) \/ (\E e \in Errors : r = Bad(e))

\* Every branch of the conversion (parser.h:403-770) stores a value or names an error.
LEMMA ConvertGivesResult ==
  ASSUME NEW type, NEW text
  PROVE  IsResult(Convert(type, text))
  <1> USE DEF Errors
  <1>1. IsResult(AsBool(text))
    BY Zenon DEF AsBool, IsResult
  <1>2. ASSUME NEW width PROVE IsResult(AsUnsigned(width, text))
    BY Zenon DEF AsUnsigned, IsResult
  <1>3. IsResult(AsInt(Width[type], text))
    BY <1>2, Zenon DEF AsInt, IsResult
  <1>4. IsResult(AsReal(text))
    BY Zenon DEF AsReal, IsResult
  <1>5. IsResult(AsSize(text))
    <2>1. CASE text = "1K"
      BY <2>1 DEF AsSize, IsResult
    <2>2. CASE text = "20000000000000000K"
      BY <2>2 DEF AsSize, IsResult
    <2>3. CASE text \notin {"1K", "20000000000000000K"}
      BY <1>2, <2>3 DEF AsSize
    <2> QED
      BY <2>1, <2>2, <2>3
  <1>6. IsResult(Ok(text))
    BY DEF IsResult
  <1>7. Convert(type, text) \in {AsBool(text), AsUnsigned(Width[type], text), AsInt(Width[type], text),
                                 AsReal(text), AsSize(text), Ok(text)}
    BY DEF Convert
  <1> QED
    BY <1>1, <1>2, <1>3, <1>4, <1>5, <1>6, <1>7

\* A refused value names one of the errors.
LEMMA ResultFacts ==
  ASSUME NEW r, IsResult(r), ~r.ok
  PROVE  r.is \in Errors
  BY DEF IsResult, Ok, Bad

----------------------------------------------------------------------------
(***************************************************************************)
(* The inductive invariant: while a parse runs, what is not shifted yet is *)
(* the rest of its arguments; once it has returned true, what it handed    *)
(* back accounts for them.                                                 *)
(***************************************************************************)
Flag(V) == [type : Types, name : Names, mandatory : BOOLEAN, val : V, changed : BOOLEAN]

Table ==
    /\ \E V : flags \in Seq(Flag(V))
    /\ Len(flags) <= MaxFlags
    /\ \A j \in 1 .. Len(flags) : flags[j].type # "LIST" => Len(flags[j].val) = 1

Booleans == named \in BOOLEAN /\ found \in BOOLEAN

Scalars ==
    /\ err \in Errors \cup {"NO_ERROR"} /\ {errName, errValue} \subseteq Names \cup {"1", "none"}
    /\ pc \in {"idle", "args", "match"} /\ ret \in {"none", "true", "false"}
    /\ calls \in 0 .. MaxParses

Loop ==
    /\ cur \in Arg /\ cur.kind \in {"flag", "word"} /\ (pc = "match" => cur.kind = "flag")
    /\ (pc = "idle" => i = 1)
    /\ i \in 1 .. Len(flags) + 1

Remaining ==
    /\ args \in Seq(Arg) /\ argv \in Seq(Arg) /\ mark \in 0 .. Len(args)
    /\ pc # "idle" => IsRest(argv, args)

IInv == Table /\ Booleans /\ Scalars /\ Loop /\ Remaining /\ RestIsComplete

\* A program starts with an empty context.
LEMMA InitInv == Init => IInv
  <1> SUFFICES ASSUME Init PROVE IInv
    OBVIOUS
  <1> USE FlagAssumption DEF Init
  <1>1. Table
    <2>1. flags \in Seq(Flag({})) /\ Len(flags) = 0
      BY EmptySeq
    <2> QED
      BY <2>1 DEF Table
  <1>2. Booleans /\ Scalars
    <2>1. Booleans
      BY Zenon DEF Booleans
    <2>2. 0 \in 0 .. MaxParses
      OBVIOUS
    <2>3. Scalars
      BY <2>2, Zenon DEF Scalars
    <2> QED
      BY <2>1, <2>3
  <1>3. Loop
    BY DEF Loop, Arg, NoArg, Word
  <1>4. Remaining
    BY DEF Remaining
  <1>5. RestIsComplete
    BY DEF RestIsComplete
  <1> QED
    BY <1>1, <1>2, <1>3, <1>4, <1>5 DEF IInv

\* The table grows by registration; a store changes one value.
LEMMA TableInv ==
  ASSUME IInv, [Next]_vars
  PROVE  Table'
  <1>1. PICK V : flags \in Seq(Flag(V))
    BY DEF IInv, Table
  <1>2. ASSUME NEW W, V \subseteq W PROVE flags \in Seq(Flag(W))
    BY <1>1, <1>2, SeqMonotonic DEF Flag
  <1>3. CASE ContextReset
    <2>1. flags' \in Seq(Flag({})) /\ Len(flags') = 0
      BY <1>3, EmptySeq DEF ContextReset
    <2> QED
      BY <2>1, FlagAssumption DEF Table
  <1>4. ASSUME NEW type \in Types, NEW name \in Names, NEW mandatory \in BOOLEAN, Register(type, name, mandatory)
        PROVE  Table'
    <2> DEFINE new == [type |-> type, name |-> name, mandatory |-> mandatory,
                       val |-> IF type = "LIST" THEN <<>> ELSE <<"default">>, changed |-> FALSE]
               W == V \cup {<<>>, <<"default">>}
    <2>1. flags' = Append(flags, new) /\ Len(flags) < MaxFlags
      BY <1>4 DEF Register
    <2>2. new \in Flag(W) /\ flags \in Seq(Flag(W))
      BY <1>2 DEF Flag
    <2>3. flags' \in Seq(Flag(W)) /\ Len(flags') = Len(flags) + 1
          /\ \A j \in 1 .. Len(flags') : flags'[j] = IF j <= Len(flags) THEN flags[j] ELSE new
      <3> HIDE DEF new, W
      <3> QED
        BY <2>1, <2>2
    <2>4. Len(flags') <= MaxFlags
      BY <2>1, <2>3, <1>1, FlagAssumption
    <2>5. ASSUME NEW j \in 1 .. Len(flags'), flags'[j].type # "LIST" PROVE Len(flags'[j].val) = 1
      BY <1>1, <2>3, <2>5 DEF IInv, Table
    <2> QED
      BY <2>3, <2>4, <2>5 DEF Table
  <1>5. CASE StoreValue
    <2> DEFINE new == Stores(flags[i], Read.is)
               W == V \cup {new.val}
    <2>1. i \in 1 .. Len(flags) /\ flags' = [flags EXCEPT ![i] = new]
      BY <1>5, <1>1 DEF StoreValue, Matches, IInv, Loop
    <2>2. flags[i] \in Flag(V)
      BY <1>1, <2>1, ElementOfSeq
    <2>3. new \in Flag(W) /\ new.type = flags[i].type
      BY <2>2 DEF Flag, Stores
    <2>4. new.type # "LIST" => Len(new.val) = 1
      BY <2>1, <2>2, <1>1 DEF IInv, Table, Stores, Flag
    <2>5. flags \in Seq(Flag(W))
      BY <1>2
    <2> HIDE DEF new, W
    <2>6. flags' \in Seq(Flag(W)) /\ Len(flags') = Len(flags)
          /\ \A j \in 1 .. Len(flags') : flags'[j] = IF j = i THEN new ELSE flags[j]
      BY <2>1, <2>3, <2>5, ExceptSeq
    <2> QED
      BY <2>4, <2>6 DEF Table, IInv
  <1>6. CASE UNCHANGED flags
    BY <1>6 DEF Table, IInv
  <1> QED
    BY <1>3, <1>4, <1>5, <1>6 DEF Next, Parsing, FlagParse, TakeRest, TakeHelp, TakeFlag, SkipFlag,
       NoValue, BadValue, NextArgument, UnknownFlag, EndOfArgs, Fail, context, vars

\* named and found stay flags.
LEMMA BooleansInv ==
  ASSUME IInv, [Next]_vars
  PROVE  Booleans'
  <1>1. Booleans
    BY Zenon DEF IInv
  <1>2. CASE UNCHANGED <<named, found>>
    BY <1>1, <1>2, Zenon DEF Booleans
  <1>3. CASE ContextReset
    BY <1>1, <1>3, Zenon DEF Booleans, ContextReset, Local
  <1>4. CASE FlagParse
    BY <1>1, <1>4, Zenon DEF Booleans, FlagParse
  <1>5. ASSUME NEW result, Return(result), UNCHANGED named PROVE Booleans'
    BY <1>1, <1>5, Zenon DEF Booleans, Return
  <1>6. ASSUME NEW error, NEW value, Fail(error, value) PROVE Booleans'
    BY <1>5, <1>6, Zenon DEF Fail
  <1>7. CASE TakeFlag \/ StoreValue \/ NextArgument
    BY <1>1, <1>7, Zenon DEF Booleans, TakeFlag, StoreValue, NextArgument, context
  <1>8. CASE TakeRest \/ TakeHelp \/ EndOfArgs
    BY <1>5, <1>8, Zenon DEF TakeRest, TakeHelp, EndOfArgs, context
  <1>9. CASE SkipFlag
    BY <1>2, <1>9, Zenon DEF SkipFlag, context
  <1>10. ASSUME NEW type, NEW name, NEW mandatory, Register(type, name, mandatory) PROVE Booleans'
    BY <1>2, <1>10, Zenon DEF Register, Local
  <1>11. CASE UNCHANGED vars
    BY <1>2, <1>11, Zenon DEF vars, context
  <1> QED
    BY <1>3, <1>4, <1>6, <1>7, <1>8, <1>9, <1>10, <1>11, Zenon
       DEF Next, Parsing, NoValue, BadValue, UnknownFlag

\* Errors are set to the codes and names of the code only.
LEMMA ScalarsInv ==
  ASSUME IInv, [Next]_vars
  PROVE  Scalars'
  <1>1. Scalars
    BY DEF IInv
  <1> USE DEF Scalars
  <1>2. CASE UNCHANGED <<err, errName, errValue, pc, ret, calls>>
    BY <1>1, <1>2, Zenon
  <1>3. CASE ContextReset
    BY <1>1, <1>3, Zenon DEF ContextReset, Forget, Local
  <1>4. ASSUME NEW type, NEW name, NEW mandatory, Register(type, name, mandatory) PROVE Scalars'
    BY <1>1, <1>4, Zenon DEF Register, Forget, Local
  <1>5. CASE FlagParse
    <2>1. calls' \in 0 .. MaxParses
      BY <1>1, <1>5, FlagAssumption DEF FlagParse
    <2> QED
      BY <1>1, <1>5, <2>1, Zenon DEF FlagParse
  <1>6. CASE TakeRest \/ TakeHelp \/ TakeFlag \/ SkipFlag \/ StoreValue \/ NextArgument
    BY <1>1, <1>6, Zenon DEF TakeRest, TakeHelp, TakeFlag, SkipFlag, StoreValue, NextArgument, Return, context
  <1>7. ASSUME NEW error \in Errors, NEW value \in Names \cup {"1", "none"}, pc = "match", Fail(error, value)
        PROVE  Scalars'
    <2>1. cur.name \in Names \cup {"1"}
      BY <1>7, ArgFacts DEF IInv, Loop
    <2> QED
      BY <1>1, <1>7, <2>1, Zenon DEF Fail, Return
  <1>8. CASE NoValue
    BY <1>1, <1>7, <1>8 DEF NoValue, Matches, Errors
  <1>9. CASE BadValue
    <2>1. IsResult(Read)
      <3>1. IsResult(Ok("ignored"))
        BY DEF IsResult
      <3> QED
        BY <3>1, ConvertGivesResult, Zenon DEF Read
    <2>2. Read.is \in Errors
      BY <2>1, <1>9, ResultFacts, Zenon DEF BadValue
    <2> QED
      BY <1>1, <1>7, <1>9, <2>2 DEF BadValue, Matches
  <1>10. CASE UnknownFlag
    <2>1. cur.name \in Names \cup {"1"}
      BY <1>10, ArgFacts DEF UnknownFlag, IInv, Loop
    <2> QED
      BY <1>7, <1>10, <2>1 DEF UnknownFlag, Errors
  <1>11. CASE EndOfArgs
    <2>1. CASE Missing = {}
      BY <1>1, <1>11, <2>1, Zenon DEF EndOfArgs, Return
    <2>2. CASE Missing # {}
      <3>1. PICK V : flags \in Seq(Flag(V))
        BY DEF IInv, Table
      <3>2. Missing \subseteq 1 .. Len(flags) /\ Len(flags) \in Nat
        BY <3>1 DEF Missing
      <3>3. Max(Missing) \in 1 .. Len(flags)
        <4> HIDE DEF Missing
        <4>1. Max(Missing) \in Missing
          BY <2>2, <3>2, MaxIsMember
        <4> QED
          BY <3>2, <4>1
      <3>4. flags[Max(Missing)] \in Flag(V)
        <4> DEFINE m == Max(Missing)
        <4> HIDE DEF m
        <4>1. m \in 1 .. Len(flags)
          BY <3>3 DEF m
        <4>2. flags[m] \in Flag(V)
          BY <3>1, <4>1, ElementOfSeq
        <4> QED
          BY <4>2 DEF m
      <3>5. flags[Max(Missing)].name \in Names
        BY <3>4 DEF Flag
      <3> QED
        BY <1>1, <1>11, <2>2, <3>5, Zenon DEF EndOfArgs, Return, Errors
    <2> QED
      BY <2>1, <2>2
  <1>12. CASE UNCHANGED vars
    BY <1>2, <1>12, Zenon DEF vars, context
  <1> QED
    BY <1>3, <1>4, <1>5, <1>6, <1>8, <1>9, <1>10, <1>11, <1>12, Zenon DEF Next, Parsing

\* The loop over the table stays within it.
LEMMA LoopInv ==
  ASSUME IInv, [Next]_vars
  PROVE  Loop'
  <1>1. Loop /\ Len(flags) \in Nat
    BY DEF IInv, Table
  <1>2. NoArg \in Arg /\ NoArg.kind = "word"
    BY DEF Arg, NoArg, Word
  <1> USE DEF Loop
  <1>3. ASSUME NEW result, Return(result), UNCHANGED flags PROVE Loop'
    BY <1>1, <1>2, <1>3 DEF Return
  <1>4. CASE ContextReset
    <2>1. Len(flags') = 0
      BY <1>4, EmptySeq DEF ContextReset
    <2>2. pc = "idle" /\ i' = i /\ pc' = pc /\ cur' = cur
      BY <1>4, Zenon DEF ContextReset, Local
    <2> QED
      BY <1>1, <2>1, <2>2
  <1>5. ASSUME NEW type, NEW name, NEW mandatory, Register(type, name, mandatory) PROVE Loop'
    <2>1. Len(flags') = Len(flags) + 1
      BY <1>5 DEF Register, IInv, Table
    <2> QED
      BY <1>1, <1>5, <2>1 DEF Register, Local
  <1>6. CASE FlagParse
    BY <1>1, <1>6 DEF FlagParse
  <1>7. CASE TakeRest \/ TakeHelp
    BY <1>3, <1>7, Zenon DEF TakeRest, TakeHelp, context
  <1>8. CASE TakeFlag
    <2>1. Head(argv) \in Arg
      BY <1>8, HeadTailProperties DEF TakeFlag, IInv, Remaining
    <2> QED
      BY <1>1, <1>8, <2>1 DEF TakeFlag, context
  <1>9. CASE SkipFlag
    BY <1>1, <1>9 DEF SkipFlag, context
  <1>10. ASSUME NEW error, NEW value, Fail(error, value) PROVE Loop'
    BY <1>3, <1>10, Zenon DEF Fail
  <1>11. CASE StoreValue
    <2>1. Len(flags') = Len(flags) /\ i \in 1 .. Len(flags)
      BY <1>1, <1>11, ExceptSeq DEF StoreValue, Matches, IInv, Table
    <2>2. i' = i + 1 /\ pc' = pc /\ cur' = cur /\ pc = "match"
      BY <1>11, Zenon DEF StoreValue, Matches
    <2> QED
      BY <1>1, <2>1, <2>2
  <1>12. CASE NextArgument
    BY <1>1, <1>2, <1>12 DEF NextArgument, context
  <1>13. CASE EndOfArgs
    BY <1>3, <1>13, Zenon DEF EndOfArgs
  <1>14. CASE UNCHANGED vars
    BY <1>1, <1>14 DEF vars, context
  <1> QED
    BY <1>4, <1>5, <1>6, <1>7, <1>8, <1>9, <1>10, <1>11, <1>12, <1>13, <1>14, Zenon
       DEF Next, Parsing, NoValue, BadValue, UnknownFlag

\* Taking the first of what is left leaves a rest, and it follows what was dealt with.
LEMMA ShiftFacts ==
  ASSUME IInv, pc # "idle", argv # <<>>
  PROVE  /\ Tail(argv) \in Seq(Arg) /\ IsRest(Tail(argv), args)
         /\ Head(argv) = args[Len(args) - Len(argv) + 1]
         /\ Len(args) - Len(argv) \in 0 .. Len(args)
         /\ Len(args) - Len(argv) < Len(args)
         /\ argv = SubSeq(args, Len(args) - Len(argv) + 1, Len(args))
  <1>1. args \in Seq(Arg) /\ argv \in Seq(Arg) /\ IsRest(argv, args)
    BY DEF IInv, Remaining
  <1>2. IsRest(Tail(argv), args) /\ Head(argv) = args[Len(args) - Len(argv) + 1] /\ Len(argv) \in 1 .. Len(args)
    BY <1>1, TailIsRest
  <1>3. Tail(argv) \in Seq(Arg)
    BY <1>1, HeadTailProperties
  <1> QED
    BY <1>1, <1>2, <1>3 DEF IsRest

\* Each shift leaves a rest of the arguments of the call.
LEMMA RemainingInv ==
  ASSUME IInv, [Next]_vars
  PROVE  Remaining'
  <1>1. Remaining
    BY DEF IInv
  <1> USE DEF Remaining
  <1>2. <<>> \in Seq(Arg) /\ Len(<<>>) = 0
    BY EmptySeq
  <1>3. ASSUME argv' = <<>>, args' = args, pc' = "idle", mark' \in 0 .. Len(args) PROVE Remaining'
    BY <1>1, <1>2, <1>3
  <1>4. CASE ContextReset
    <2>1. args' = <<>> /\ mark' = 0 /\ argv' = argv /\ pc' = "idle"
      BY <1>4 DEF ContextReset, Forget, Local
    <2> QED
      BY <1>1, <1>2, <2>1
  <1>5. ASSUME NEW type, NEW name, NEW mandatory, Register(type, name, mandatory) PROVE Remaining'
    <2>1. args' = <<>> /\ mark' = 0 /\ argv' = argv /\ pc' = "idle"
      BY <1>5 DEF Register, Forget, Local
    <2> QED
      BY <1>1, <1>2, <2>1
  <1>6. CASE FlagParse
    <2>1. PICK given \in Argvs : argv' = IF named THEN <<Program>> \o given ELSE given
      BY <1>6, Zenon DEF FlagParse
    <2>2. given \in Seq(Arg) /\ <<Program>> \in Seq(Arg)
      BY GivenIsSeq DEF Arg
    <2>3. argv' \in Seq(Arg)
      <3>1. <<Program>> \o given \in Seq(Arg)
        BY <2>2, ConcatProperties
      <3> QED
        BY <2>1, <2>2, <3>1, Zenon
    <2>4. args' = argv' /\ mark' = 0
      BY <1>6, Zenon DEF FlagParse
    <2>5. IsRest(argv', args')
      BY <2>3, <2>4, WholeIsRest
    <2> QED
      BY <2>3, <2>4, <2>5
  <1>7. CASE TakeRest \/ TakeHelp
    <2>1. argv # <<>> /\ pc # "idle" /\ mark' = Len(args) - Len(argv) /\ args' = args /\ argv' = <<>> /\ pc' = "idle"
      BY <1>7 DEF TakeRest, TakeHelp, Return
    <2> QED
      BY <1>3, <2>1, ShiftFacts
  <1>8. CASE TakeFlag
    <2>1. argv # <<>> /\ pc # "idle" /\ mark' = Len(args) - Len(argv) /\ args' = args /\ argv' = Tail(argv)
      BY <1>8 DEF TakeFlag
    <2> QED
      BY <1>1, <2>1, ShiftFacts
  <1>9. CASE SkipFlag \/ NextArgument
    BY <1>1, <1>9 DEF SkipFlag, NextArgument, Hist
  <1>10. ASSUME NEW error, NEW value, Fail(error, value) PROVE Remaining'
    <2>1. argv' = <<>> /\ args' = args /\ pc' = "idle" /\ mark' = mark
      BY <1>10, Zenon DEF Fail, Return, Hist
    <2> QED
      BY <1>1, <1>3, <2>1
  <1>11. CASE StoreValue
    <2>1. args' = args /\ mark' = mark /\ pc' = pc /\ pc # "idle"
      BY <1>11 DEF StoreValue, Hist, Matches
    <2>2. CASE cur.eq
      <3>1. argv' = argv
        BY <1>11, <2>2 DEF StoreValue
      <3> QED
        BY <1>1, <2>1, <3>1
    <2>3. CASE ~cur.eq
      <3>1. argv' = Tail(argv) /\ argv # <<>>
        BY <1>11, <2>3 DEF StoreValue, HasValue
      <3> QED
        BY <1>1, <2>1, <3>1, ShiftFacts
    <2> QED
      BY <2>2, <2>3
  <1>12. CASE EndOfArgs
    <2>1. argv' = <<>> /\ args' = args /\ pc' = "idle" /\ mark' = Len(args)
      BY <1>12, Zenon DEF EndOfArgs, Return
    <2> QED
      BY <1>1, <1>3, <2>1
  <1>13. CASE UNCHANGED vars
    BY <1>1, <1>13 DEF vars
  <1> QED
    BY <1>4, <1>5, <1>6, <1>7, <1>8, <1>9, <1>10, <1>11, <1>12, <1>13, Zenon
       DEF Next, Parsing, NoValue, BadValue, UnknownFlag

\* A return of true hands back exactly what was not dealt with.
LEMMA RestInv ==
  ASSUME IInv, [Next]_vars
  PROVE  RestIsComplete'
  <1> USE DEF RestIsComplete
  <1>1. CASE ret' # "true" \/ pc' # "idle"
    BY <1>1, Zenon
  <1>2. CASE TakeRest
    <2>1. /\ argv # <<>> /\ pc # "idle" /\ mark' = Len(args) - Len(argv) /\ args' = args /\ rest' = argv
      BY <1>2 DEF TakeRest
    <2>2. rest' = SubSeq(args', mark' + 1, Len(args')) /\ mark' # Len(args')
      BY <2>1, ShiftFacts
    <2> QED
      BY <2>2
  <1>3. CASE TakeHelp
    <2>1. argv # <<>> /\ pc # "idle" /\ mark' = Len(args) - Len(argv) /\ args' = args /\ Head(argv).kind = "help"
      BY <1>3 DEF TakeHelp
    <2>2. Head(argv) \in Arg
      BY <2>1, HeadTailProperties DEF IInv, Remaining
    <2>3. args'[mark' + 1] = Help /\ mark' < Len(args')
      BY <2>1, <2>2, ArgFacts, ShiftFacts
    <2> QED
      BY <2>3
  <1>4. CASE EndOfArgs /\ Missing = {}
    <2>1. mark' = Len(args) /\ args' = args /\ rest' = <<>> /\ flags' = flags
      BY <1>4, Zenon DEF EndOfArgs
    <2>2. Missing' = {}
      BY <1>4, <2>1 DEF Missing
    <2>3. SubSeq(args, Len(args) + 1, Len(args)) = <<>>
      BY SubSeqEmpty DEF IInv, Remaining
    <2> QED
      BY <2>1, <2>2, <2>3
  <1>5. CASE EndOfArgs /\ Missing # {}
    BY <1>1, <1>5, Zenon DEF EndOfArgs, Return
  <1>6. ASSUME NEW error, NEW value, Fail(error, value) PROVE RestIsComplete'
    BY <1>1, <1>6, Zenon DEF Fail, Return
  <1>7. CASE ContextReset \/ FlagParse
    BY <1>1, <1>7, Zenon DEF ContextReset, Forget, FlagParse
  <1>8. ASSUME NEW type, NEW name, NEW mandatory, Register(type, name, mandatory) PROVE RestIsComplete'
    BY <1>1, <1>8, Zenon DEF Register, Forget
  <1>9. CASE TakeFlag \/ SkipFlag \/ StoreValue \/ NextArgument
    BY <1>1, <1>9 DEF TakeFlag, SkipFlag, StoreValue, NextArgument, Matches
  <1>10. CASE UNCHANGED vars
    BY <1>10 DEF vars, context, IInv, Missing
  <1> QED
    BY <1>2, <1>3, <1>4, <1>5, <1>6, <1>7, <1>8, <1>9, <1>10, Zenon
       DEF Next, Parsing, NoValue, BadValue, UnknownFlag

----------------------------------------------------------------------------
(***************************************************************************)
(* The invariant holds in every reachable state, however many flags are    *)
(* registered and whatever the arguments of flag_parse are.                *)
(***************************************************************************)
THEOREM Invariant == Spec => []IInv
  <1>1. IInv /\ [Next]_vars => IInv'
    <2> SUFFICES ASSUME IInv, [Next]_vars PROVE IInv'
      OBVIOUS
    <2> QED
      BY TableInv, BooleansInv, ScalarsInv, LoopInv, RemainingInv, RestInv, Zenon DEF IInv
  <1> QED
    BY InitInv, <1>1, PTL DEF Spec

(***************************************************************************)
(* Every variable keeps its type: the table holds registered types and     *)
(* names only, the loop of flag_parse stays within it (parser.h:382-400),  *)
(* and flag_error_name is a flag's name, also where a mandatory flag that  *)
(* was not given is reported (parser.h:774-781).                           *)
(***************************************************************************)
THEOREM TypeCorrect == Spec => []TypeOK
  <1>1. IInv => TypeOK
    <2> SUFFICES ASSUME IInv PROVE TypeOK
      OBVIOUS
    <2>1. PICK V : flags \in Seq(Flag(V))
      BY DEF IInv, Table
    <2>2. ASSUME NEW j \in DOMAIN flags
          PROVE  /\ flags[j].type \in Types /\ flags[j].name \in Names
                 /\ flags[j].type # "LIST" => Len(flags[j].val) = 1
      <3>1. j \in 1 .. Len(flags) /\ flags[j] \in Flag(V)
        BY <2>1, <2>2, ElementOfSeq
      <3> QED
        BY <3>1 DEF Flag, IInv, Table
    <2>3. Booleans /\ Scalars /\ Loop /\ Len(flags) <= MaxFlags /\ mark \in 0 .. Len(args)
      BY Zenon DEF IInv, Table, Remaining
    <2> QED
      BY <2>2, <2>3, Zenon DEF TypeOK, Booleans, Scalars, Loop
  <1> QED
    BY Invariant, <1>1, PTL

(***************************************************************************)
(* A parse that returns true accounts for every argument: those dealt with *)
(* and flag_rest_args are the argument list unless help was asked for, and *)
(* a parse that used them all saw every mandatory flag (parser.h:371-376,  *)
(* 774-789).                                                               *)
(***************************************************************************)
THEOREM RestIsCompleteHolds == Spec => []RestIsComplete
  <1>1. IInv => RestIsComplete
    BY Zenon DEF IInv
  <1> QED
    BY Invariant, <1>1, PTL

----------------------------------------------------------------------------
(***************************************************************************)
(* What a list of arguments says, as operators on the list alone: F tells  *)
(* which arguments are flags, a is the list, b a flag before the parse and *)
(* f the flag after d of the arguments.                                    *)
(***************************************************************************)
\* A number and the next one differ in parity.
LEMMA Parity ==
  ASSUME NEW a \in Int
  PROVE  (a + 1) % 2 = 1 <=> ~(a % 2 = 1)
  OBVIOUS

\* Read from the left: the first is a flag, and the next one unless a flag without "=" took it.
Alternates(F, a) ==
    /\ F[1]
    /\ \A k \in 2 .. MaxArgs + 1 : F[k] <=> ~(F[k - 1] /\ ~a[k - 1].eq)

\* IsFlagAt does what its recursion says: such a function exists, by the parity of the distance to the last "=".
LEMMA FlagsAlternate == Alternates(IsFlagAt, args)
  <1> DEFINE N == MaxArgs + 1
             L(k, l) == /\ l \in 0 .. k - 1 /\ (l = 0 \/ args[l].eq)
                        /\ \A m \in l + 1 .. k - 1 : ~args[m].eq
             last(k) == CHOOSE l : L(k, l)
             f == [k \in 1 .. N |-> (k - last(k)) % 2 = 1]
             g(h) == [k \in 1 .. N |-> k = 1 \/ ~(h[k - 1] /\ ~args[k - 1].eq)]
  <1>0. N \in Nat /\ 1 \in 1 .. N
    BY FlagAssumption
  <1> HIDE DEF N
  <1>8. ASSUME NEW k \in 1 .. N, k # 1 PROVE k - 1 \in 1 .. N
    BY <1>0, <1>8
  <1>3. ASSUME NEW k \in 1 .. N PROVE L(k, last(k))
    <2> DEFINE S == {l \in 0 .. k - 1 : l = 0 \/ args[l].eq}
    <2>1. 0 \in S /\ S \subseteq 0 .. k - 1 /\ k - 1 \in Nat
      OBVIOUS
    <2>2. PICK m \in S : \A j \in S : j <= m
      <3> HIDE DEF S
      <3> QED
        BY <2>1, HasLargest
    <2>3. L(k, m)
      BY <2>2
    <2> HIDE DEF L
    <2> QED
      BY <2>3
  <1>4. ASSUME NEW k \in 1 .. N, NEW l, L(k, l) PROVE l = last(k)
    <2> DEFINE o == last(k)
    <2>1. L(k, o)
      BY <1>3
    <2> HIDE DEF o
    <2>2. o = l
      BY <1>4, <2>1
    <2> QED
      BY <2>2 DEF o
  <1> HIDE DEF last
  <1>1. f = g(f)
    <2>1. ASSUME NEW k \in 1 .. N PROVE (k - last(k)) % 2 = 1 <=> (k = 1 \/ ~((k - 1 - last(k - 1)) % 2 = 1 /\ ~args[k - 1].eq))
      <3>1. CASE k = 1
        <4>1. last(k) = 0
          BY <1>3, <3>1
        <4> QED
          BY <3>1, <4>1
      <3>2. CASE k # 1 /\ args[k - 1].eq
        <4>1. L(k, k - 1)
          BY <3>2
        <4>2. last(k) = k - 1
          BY <1>4, <4>1
        <4> QED
          BY <3>2, <4>2
      <3>3. CASE k # 1 /\ ~args[k - 1].eq
        <4>1. L(k - 1, last(k - 1))
          BY <1>3, <1>8, <3>3
        <4>2. L(k, last(k - 1))
          BY <3>3, <4>1
        <4>3. last(k) = last(k - 1)
          BY <1>4, <4>2
        <4>4. last(k - 1) \in Int
          BY <4>1
        <4>5. k - 1 - last(k - 1) \in Int /\ k - last(k) = (k - 1 - last(k - 1)) + 1
          BY <4>3, <4>4
        <4> QED
          BY <3>3, <4>5, Parity
      <3> QED
        BY <3>1, <3>2, <3>3
    <2>2. ASSUME NEW k \in 1 .. N PROVE ((k - last(k)) % 2 = 1) = (k = 1 \/ ~(f[k - 1] /\ ~args[k - 1].eq))
      <3>1. CASE k = 1
        BY <2>1, <3>1
      <3>2. CASE k # 1
        <4>1. f[k - 1] = ((k - 1 - last(k - 1)) % 2 = 1)
          BY <1>8, <3>2, Zenon
        <4> HIDE DEF f
        <4> QED
          BY <2>1, <4>1, Zenon
      <3> QED
        BY <3>1, <3>2
    <2> QED
      BY <2>2, Zenon
  <1>2. IsFlagAt = g(IsFlagAt)
    <2>1. \E h : h = g(h)
      <3> HIDE DEF f
      <3> QED
       BY <1>1
    <2>2. IsFlagAt = CHOOSE h : h = g(h)
      BY DEF IsFlagAt, N
    <2> HIDE DEF g
    <2> QED
      BY <2>1, <2>2
  <1>5. ASSUME NEW k \in 1 .. N PROVE IsFlagAt[k] = (k = 1 \/ ~(IsFlagAt[k - 1] /\ ~args[k - 1].eq))
    BY <1>2, Zenon
  <1>6. IsFlagAt[1]
    BY <1>0, <1>5, Zenon
  <1>7. ASSUME NEW k \in 2 .. N PROVE IsFlagAt[k] <=> ~(IsFlagAt[k - 1] /\ ~args[k - 1].eq)
    <2>1. k \in 1 .. N /\ k # 1
      BY <1>0
    <2> QED
      BY <1>5, <2>1, Zenon
  <1> QED
    BY <1>6, <1>7, Zenon DEF Alternates, N

\* Uses, Kept, what a value is read as, all of them in order, and Given.
UsesOf(F, a, name, d) == {k \in 1 .. d : F[k] /\ a[k].name = name}
KeptOf(F, a, name, d) == {k \in UsesOf(F, a, name, d) : ~a[k].ignore}
ReadAt(a, type, k)    == Convert(type, IF a[k].eq THEN a[k].value ELSE a[k + 1].text).is
InOrder(a, type, S)   == [n \in 1 .. Cardinality(S) |-> ReadAt(a, type, Nth(S, n))]

GivenOf(F, a, b, f, d) ==
    LET kept == KeptOf(F, a, f.name, d)
    IN  IF f.type = "LIST" THEN b.val \o InOrder(a, f.type, kept)
        ELSE IF kept = {} THEN b.val ELSE <<ReadAt(a, f.type, Max(kept))>>

\* The flag is what the first d arguments say.
Says(F, a, b, f, d) ==
    /\ f.val = GivenOf(F, a, b, f, d)
    /\ f.changed = (b.changed \/ UsesOf(F, a, f.name, d) # {})

\* The value of a list.
IsSequence(s) == \E V : s \in Seq(V)

\* A number above all others of a set is its last and its largest, and moves none of them.
LEMMA LargestIsLast ==
  ASSUME NEW d \in Nat, NEW S, S \subseteq 1 .. d
  PROVE  /\ IsFiniteSet(S) /\ Cardinality(S) \in Nat
         /\ Cardinality(S \cup {d + 1}) = Cardinality(S) + 1
         /\ \A n \in 1 .. Cardinality(S) : Nth(S \cup {d + 1}, n) = Nth(S, n)
         /\ Nth(S \cup {d + 1}, Cardinality(S) + 1) = d + 1
         /\ Max(S \cup {d + 1}) = d + 1
  <1> DEFINE T == S \cup {d + 1}
             upTo(R, k) == {m \in R : m <= k}
             at(R, n) == {k \in R : Cardinality(upTo(R, k)) = n}
  <1>1. IsFiniteSet(S) /\ Cardinality(S) \in Nat
    <2>1. IsFiniteSet(1 .. d)
      BY FS_Interval
    <2> QED
      BY <2>1, FS_Subset, FS_CardinalityType
  <1>2. Cardinality(T) = Cardinality(S) + 1
    BY <1>1, FS_AddElement
  <1>3. ASSUME NEW k \in S PROVE upTo(T, k) = upTo(S, k) /\ Cardinality(upTo(S, k)) <= Cardinality(S)
    <2>1. upTo(T, k) = upTo(S, k)
      OBVIOUS
    <2>2. upTo(S, k) \subseteq S
      OBVIOUS
    <2> QED
      BY <1>1, <2>1, <2>2, FS_Subset
  <1>4. upTo(T, d + 1) = T
    <2>1. \A m \in T : m <= d + 1
      OBVIOUS
    <2> QED
      BY <2>1
  <1>6. ASSUME NEW R, NEW n PROVE Nth(R, n) = CHOOSE k \in at(R, n) : TRUE
    BY DEF Nth
  <1> HIDE DEF upTo
  <1>5. ASSUME NEW n \in 1 .. Cardinality(S) PROVE at(T, n) = at(S, n)
    <2>1. Cardinality(upTo(T, d + 1)) # n
      BY <1>1, <1>2, <1>4, <1>5
    <2>2. \A k \in S : Cardinality(upTo(T, k)) = Cardinality(upTo(S, k))
      BY <1>3
    <2> QED
      BY <2>1, <2>2, Zenon
  <1>7. at(T, Cardinality(S) + 1) = {d + 1}
    <2>1. ASSUME NEW k \in S PROVE Cardinality(upTo(T, k)) # Cardinality(S) + 1
      <3>1. IsFiniteSet(upTo(S, k)) /\ Cardinality(upTo(S, k)) \in Nat
        BY <1>1, FS_Subset, FS_CardinalityType DEF upTo
      <3> QED
        BY <1>1, <1>3, <3>1
    <2> QED
      BY <1>2, <1>4, <2>1
  <1>8. Max(T) = d + 1
    <2>1. T \subseteq 0 .. d + 1 /\ d + 1 \in T /\ d + 1 \in Nat /\ \A j \in T : j <= d + 1
      OBVIOUS
    <2> HIDE DEF T
    <2> QED
      BY <2>1, MaxIsLargest
  <1>9. ASSUME NEW n \in 1 .. Cardinality(S) PROVE Nth(T, n) = Nth(S, n)
    BY <1>5, <1>6
  <1>10. Nth(T, Cardinality(S) + 1) = d + 1
    BY <1>6, <1>7
  <1> QED
    BY <1>1, <1>2, <1>8, <1>9, <1>10

\* One more use is one more value at the end (flag_list_append, parser.h:152).
LEMMA InOrderAppends ==
  ASSUME NEW d \in Nat, NEW S, S \subseteq 1 .. d, NEW a, NEW type
  PROVE  InOrder(a, type, S \cup {d + 1}) = Append(InOrder(a, type, S), ReadAt(a, type, d + 1))
  <1> DEFINE T == S \cup {d + 1}
             c == Cardinality(S)
             V == {ReadAt(a, type, Nth(S, n)) : n \in 1 .. c} \cup {ReadAt(a, type, d + 1)}
  <1>1. /\ c \in Nat /\ Cardinality(T) = c + 1
        /\ \A n \in 1 .. c : Nth(T, n) = Nth(S, n)
        /\ Nth(T, c + 1) = d + 1
    BY LargestIsLast
  <1>2. InOrder(a, type, S) = [n \in 1 .. c |-> ReadAt(a, type, Nth(S, n))]
    BY DEF InOrder
  <1>3. InOrder(a, type, T) = [n \in 1 .. c + 1 |-> ReadAt(a, type, Nth(T, n))]
    BY <1>1 DEF InOrder
  <1> DEFINE s == InOrder(a, type, S)
             x == ReadAt(a, type, d + 1)
  <1>4. s \in Seq(V) /\ Len(s) = c
    <2>1. s \in [1 .. c -> V]
      BY <1>2
    <2> HIDE DEF c, V, s
    <2> QED
      BY <1>1, <2>1, SeqDef, LenProperties
  <1>5. Append(s, x) = [n \in 1 .. c + 1 |-> IF n <= c THEN s[n] ELSE x]
    <2>1. x \in V
      OBVIOUS
    <2> HIDE DEF c, V, s, x
    <2>2. Append(s, x) \in Seq(V) /\ Len(Append(s, x)) = c + 1
      BY <1>4, <2>1, AppendProperties
    <2>3. \A n \in 1 .. c + 1 : Append(s, x)[n] = IF n <= c THEN s[n] ELSE x
      BY <1>1, <1>4, <2>1, AppendProperties
    <2>4. Append(s, x) = [n \in 1 .. c + 1 |-> Append(s, x)[n]]
      BY <2>2, LenProperties
    <2> QED
      BY <2>3, <2>4
  <1>6. ASSUME NEW n \in 1 .. c + 1 PROVE ReadAt(a, type, Nth(T, n)) = IF n <= c THEN s[n] ELSE x
    <2>1. CASE n <= c
      <3>1. n \in 1 .. c
        BY <1>1, <2>1
      <3> QED
        BY <1>1, <1>2, <2>1, <3>1, Zenon
    <2>2. CASE ~(n <= c)
      <3>1. n = c + 1
        BY <1>1, <2>2
      <3> QED
        BY <1>1, <2>2, <3>1, Zenon
    <2> QED
      BY <2>1, <2>2
  <1> HIDE DEF s, x, c, T
  <1>7. InOrder(a, type, T) = Append(s, x)
    BY <1>3, <1>5, <1>6
  <1> QED
    BY <1>7 DEF s, x, T

\* The values in order are a list.
LEMMA InOrderIsSequence ==
  ASSUME NEW d \in Nat, NEW S, S \subseteq 1 .. d, NEW a, NEW type
  PROVE  IsSequence(InOrder(a, type, S))
  <1> DEFINE c == Cardinality(S)
             V == {ReadAt(a, type, Nth(S, n)) : n \in 1 .. c}
             s == [n \in 1 .. c |-> ReadAt(a, type, Nth(S, n))]
  <1>1. c \in Nat
    BY LargestIsLast
  <1>2. s \in [1 .. c -> V]
    OBVIOUS
  <1> HIDE DEF s, V, c
  <1>3. s \in Seq(V)
    BY <1>1, <1>2, SeqDef
  <1> QED
    BY <1>3 DEF s, V, c, InOrder, IsSequence

\* Before the first argument a flag is what it was.
LEMMA SaysNothingYet ==
  ASSUME NEW F, NEW a, NEW f, f.changed \in BOOLEAN, f.type = "LIST" => IsSequence(f.val)
  PROVE  Says(F, a, f, f, 0)
  <1>1. UsesOf(F, a, f.name, 0) = {} /\ KeptOf(F, a, f.name, 0) = {}
    BY DEF UsesOf, KeptOf
  <1>2. InOrder(a, f.type, {}) = <<>>
    <2>1. Cardinality({}) = 0
      BY FS_EmptySet
    <2> QED
      BY <2>1 DEF InOrder
  <1>3. f.type = "LIST" => f.val \o <<>> = f.val
    BY ConcatEmptySeq DEF IsSequence
  <1>4. f.val = GivenOf(F, a, f, f, 0)
    BY <1>1, <1>2, <1>3, Zenon DEF GivenOf
  <1>5. f.changed = (f.changed \/ UsesOf(F, a, f.name, 0) # {})
    BY <1>1, Zenon
  <1> QED
    BY <1>4, <1>5, Zenon DEF Says

\* An argument that is no use of the flag says nothing of it.
LEMMA SaysPast ==
  ASSUME NEW F, NEW a, NEW b, NEW f, NEW d \in Nat, ~(F[d + 1] /\ a[d + 1].name = f.name)
  PROVE  Says(F, a, b, f, d + 1) <=> Says(F, a, b, f, d)
  <1>1. \A k : k \in 1 .. d + 1 <=> k \in 1 .. d \/ k = d + 1
    OBVIOUS
  <1>2. UsesOf(F, a, f.name, d + 1) = UsesOf(F, a, f.name, d)
    BY <1>1, Zenon DEF UsesOf
  <1>3. KeptOf(F, a, f.name, d + 1) = KeptOf(F, a, f.name, d)
    BY <1>2, Zenon DEF KeptOf
  <1> QED
    BY <1>2, <1>3, Zenon DEF Says, GivenOf

\* Only arguments dealt with are kept.
LEMMA KeptIsPast ==
  ASSUME NEW F, NEW a, NEW name, NEW d
  PROVE  KeptOf(F, a, name, d) \subseteq 1 .. d
  BY Zenon DEF KeptOf, UsesOf

\* An append reaches the end of a concatenation.
LEMMA AppendToConcat ==
  ASSUME NEW S, NEW s \in Seq(S), NEW t \in Seq(S), NEW x \in S
  PROVE  s \o Append(t, x) = Append(s \o t, x)
  <1>1. s \o t \in Seq(S) /\ <<x>> \in Seq(S)
    OBVIOUS
  <1>2. Append(t, x) = t \o <<x>> /\ Append(s \o t, x) = (s \o t) \o <<x>>
    BY <1>1, AppendIsConcat
  <1>3. (s \o t) \o <<x>> = s \o (t \o <<x>>)
    BY <1>1, ConcatAssociative
  <1> QED
    BY <1>2, <1>3

\* A use that is ignored leaves the value and marks the flag as given.
LEMMA SaysIgnored ==
  ASSUME NEW F, NEW a, NEW b, NEW f, NEW g, NEW d \in Nat, F[d + 1], a[d + 1].name = f.name, a[d + 1].ignore,
         Says(F, a, b, f, d),
         g.type = f.type, g.name = f.name, g.val = f.val, g.changed = TRUE
  PROVE  Says(F, a, b, g, d + 1)
  <1>4. UsesOf(F, a, f.name, d + 1) = UsesOf(F, a, f.name, d) \cup {d + 1}
    <2>1. \A k : k \in 1 .. d + 1 <=> k \in 1 .. d \/ k = d + 1
      OBVIOUS
    <2> QED
      BY <2>1, Zenon DEF UsesOf
  <1>1. KeptOf(F, a, f.name, d + 1) = KeptOf(F, a, f.name, d)
    BY <1>4, Zenon DEF KeptOf
  <1>3. UsesOf(F, a, f.name, d + 1) # {}
    BY <1>4, Zenon
  <1>2. GivenOf(F, a, b, g, d + 1) = GivenOf(F, a, b, f, d)
    BY <1>1, Zenon DEF GivenOf
  <1> QED
    BY <1>1, <1>2, <1>3, Zenon DEF Says

\* A use that is stored is the value, or the last of the list.
LEMMA SaysStored ==
  ASSUME NEW F, NEW a, NEW b, NEW f, NEW g, NEW d \in Nat, F[d + 1], a[d + 1].name = f.name, ~a[d + 1].ignore,
         Says(F, a, b, f, d), f.type = "LIST" => IsSequence(b.val),
         g.type = f.type, g.name = f.name, g.changed = TRUE,
         g.val = IF f.type = "LIST" THEN Append(f.val, ReadAt(a, f.type, d + 1)) ELSE <<ReadAt(a, f.type, d + 1)>>
  PROVE  Says(F, a, b, g, d + 1)
  <1> DEFINE K == KeptOf(F, a, f.name, d)
             x == ReadAt(a, f.type, d + 1)
  <1>5. UsesOf(F, a, f.name, d + 1) = UsesOf(F, a, f.name, d) \cup {d + 1}
    <2>1. \A k : k \in 1 .. d + 1 <=> k \in 1 .. d \/ k = d + 1
      OBVIOUS
    <2> QED
      BY <2>1, Zenon DEF UsesOf
  <1>1. KeptOf(F, a, f.name, d + 1) = K \cup {d + 1} /\ K \subseteq 1 .. d
    BY <1>5, KeptIsPast, Zenon DEF KeptOf
  <1>4. UsesOf(F, a, f.name, d + 1) # {}
    BY <1>5, Zenon
  <1>2. CASE f.type = "LIST"
    <2> DEFINE s == InOrder(a, f.type, K)
    <2>1. PICK V : b.val \in Seq(V)
      BY <1>2, Zenon DEF IsSequence
    <2>2. PICK W : s \in Seq(W)
      <3>1. IsSequence(s)
        BY <1>1, InOrderIsSequence
      <3> QED
        BY <3>1, Zenon DEF IsSequence
    <2> HIDE DEF s, x
    <2> DEFINE U == V \cup W \cup {x}
    <2>3. s \in Seq(U) /\ b.val \in Seq(U) /\ x \in U
      BY <2>1, <2>2, SeqMonotonic
    <2> HIDE DEF U
    <2>4. b.val \o Append(s, x) = Append(b.val \o s, x)
      <3> DEFINE v == b.val
      <3>1. v \in Seq(U)
        BY <2>3
      <3> HIDE DEF v
      <3>2. v \o Append(s, x) = Append(v \o s, x)
        BY <2>3, <3>1, AppendToConcat
      <3> QED
        BY <3>2 DEF v
    <2>5. InOrder(a, f.type, K \cup {d + 1}) = Append(s, x)
      BY <1>1, InOrderAppends DEF s, x
    <2>6. g.val = GivenOf(F, a, b, g, d + 1)
      BY <1>1, <1>2, <2>4, <2>5, Zenon DEF Says, GivenOf, s, x
    <2> QED
      BY <1>4, <2>6, Zenon DEF Says
  <1>3. CASE f.type # "LIST"
    <2>1. Max(K \cup {d + 1}) = d + 1
      <3>1. K \subseteq 1 .. d
        BY <1>1
      <3> HIDE DEF K
      <3> QED
        BY <3>1, LargestIsLast
    <2>2. g.val = GivenOf(F, a, b, g, d + 1)
      BY <1>1, <1>3, <2>1, Zenon DEF GivenOf
    <2> QED
      BY <1>4, <2>2, Zenon DEF Says
  <1> QED
    BY <1>2, <1>3

----------------------------------------------------------------------------
(***************************************************************************)
(* The second invariant: while a parse runs, the table is what the         *)
(* arguments dealt with so far say.  While an argument is matched, the     *)
(* flags already compared with it count it and the others do not yet.      *)
(***************************************************************************)
\* Arguments shifted; what flag j is after n of them.
Past       == Len(args) - Len(argv)
Told(j, n) == Says(IsFlagAt, args, base[j], flags[j], n)

\* The values of lists are lists, now and when the parse began.
Lists ==
    /\ \A j \in 1 .. Len(flags) : flags[j].type = "LIST" => IsSequence(flags[j].val)
    /\ Len(args) <= MaxArgs + 1
    /\ pc # "idle" \/ ret # "none" =>
         \A j \in 1 .. Len(flags) : flags[j].type = "LIST" => IsSequence(base[j].val)

\* Between two arguments the next one is a flag, and the table is what those before it say.
AtArgs ==
    pc = "args" /\ Distinct =>
        /\ argv # <<>> => IsFlagAt[Past + 1]
        /\ \A j \in 1 .. Len(flags) : Told(j, Past)

\* While one is compared with the table, found tells whether it met its flag, and then took its value.
AtMatch ==
    pc = "match" /\ Distinct =>
        /\ mark < Len(args) /\ cur = args[mark + 1] /\ IsFlagAt[mark + 1]
        /\ Past = IF found /\ ~cur.eq THEN mark + 2 ELSE mark + 1
        /\ found <=> \E j \in 1 .. i - 1 : flags[j].name = cur.name
        /\ \A j \in 1 .. Len(flags) : Told(j, IF j < i THEN mark + 1 ELSE mark)

\* A parse that has returned leaves what the arguments it dealt with say.
AtReturn ==
    pc = "idle" /\ ret # "none" /\ Distinct => \A j \in 1 .. Len(flags) : Told(j, mark)

Reading == Lists /\ AtArgs /\ AtMatch /\ AtReturn

\* What the table says, where none of it changes, stays said.
LEMMA ToldStays ==
  ASSUME UNCHANGED <<flags, args, base>>
  PROVE  /\ Distinct' = Distinct /\ Len(flags') = Len(flags)
         /\ IsFlagAt' = IsFlagAt
         /\ \A j, n : Told(j, n)' = Told(j, n)
  <1>1. IsFlagAt' = IsFlagAt
    BY DEF IsFlagAt
  <1>2. flags' = flags /\ args' = args /\ base' = base
    BY Zenon
  <1>3. \A j, n : Told(j, n)' = Told(j, n)
    BY <1>1, <1>2, Zenon DEF Told
  <1> QED
    BY <1>1, <1>2, <1>3, Zenon DEF Distinct

\* Ranges of the parser's state, from the first invariant.
LEMMA StateFacts ==
  ASSUME IInv
  PROVE  /\ Len(flags) \in Nat /\ DOMAIN flags = 1 .. Len(flags)
         /\ Len(args) \in Nat /\ Len(argv) \in Nat /\ mark \in 0 .. Len(args)
         /\ Past \in Int /\ (pc # "idle" => Past \in 0 .. Len(args))
         /\ (argv = <<>> => Past = Len(args))
         /\ (pc # "idle" /\ argv # <<>> => Past + 1 \in 1 .. Len(args) /\ Head(argv) = args[Past + 1])
         /\ i \in 1 .. Len(flags) + 1
  <1>1. PICK V : flags \in Seq(Flag(V))
    BY DEF IInv, Table
  <1>2. args \in Seq(Arg) /\ argv \in Seq(Arg) /\ mark \in 0 .. Len(args) /\ (pc # "idle" => IsRest(argv, args))
    BY DEF IInv, Remaining
  <1>3. Len(args) \in Nat /\ Len(argv) \in Nat /\ (argv = <<>> => Len(argv) = 0)
    BY <1>2
  <1>4. pc # "idle" /\ argv # <<>> => Past + 1 \in 1 .. Len(args) /\ Head(argv) = args[Past + 1]
    BY <1>3, ShiftFacts DEF Past
  <1>5. pc # "idle" => Past \in 0 .. Len(args)
    BY <1>2, <1>3 DEF Past, IsRest
  <1> QED
    BY <1>1, <1>2, <1>3, <1>4, <1>5 DEF Past, IInv, Loop

\* A parse begins with a table nothing has been said of.
LEMMA BeginReads ==
  ASSUME IInv, IInv', Reading, Alternates(IsFlagAt', args'), FlagParse
  PROVE  Reading'
  <1>1. PICK V : flags \in Seq(Flag(V))
    BY DEF IInv, Table
  <1>2. pc' = "args" /\ flags' = flags /\ base' = flags /\ args' = argv'
    BY Zenon DEF FlagParse
  <1>3. Past' = 0
    <2>1. Len(args') \in Nat
      BY StateFacts, <1>2 DEF IInv, Remaining
    <2> QED
      BY <1>2, <2>1 DEF Past
  <1>4. Lists'
    <2>1. Len(argv') <= MaxArgs + 1
      <3>1. PICK given \in Argvs : argv' = IF named THEN <<Program>> \o given ELSE given
        BY Zenon DEF FlagParse
      <3>2. PICK k \in 0 .. MaxArgs : given \in [1 .. k -> Arguments]
        BY DEF Argvs
      <3>3. given \in Seq(Arg) /\ Len(given) = k
        BY <3>2, GivenIsSeq, LenProperties
      <3>4. <<Program>> \in Seq(Arg) /\ Len(<<Program>>) = 1
        BY DEF Arg
      <3>5. Len(<<Program>> \o given) = 1 + k
        BY <3>3, <3>4, ConcatProperties
      <3> QED
        BY <3>1, <3>2, <3>3, <3>5, FlagAssumption
    <2> QED
      BY <1>2, <2>1, Zenon DEF Lists, Reading
  <1>5. IsFlagAt'[1]
    BY Zenon DEF Alternates
  <1>6. ASSUME NEW j \in 1 .. Len(flags) PROVE Told(j, 0)'
    <2>1. flags[j].changed \in BOOLEAN
      <3>1. flags[j] \in Flag(V)
        BY <1>1, ElementOfSeq
      <3> QED
        BY <3>1, Zenon DEF Flag
    <2>2. flags[j].type = "LIST" => IsSequence(flags[j].val)
      BY Zenon DEF Reading, Lists
    <2>3. Says(IsFlagAt', args', flags[j], flags[j], 0)
      BY <2>1, <2>2, SaysNothingYet
    <2> QED
      BY <1>2, <2>3, Zenon DEF Told
  <1>7. AtArgs'
    <2>1. argv' # <<>> => IsFlagAt'[Past' + 1]
      <3>1. Past' + 1 = 1
        BY <1>3
      <3> QED
        BY <1>5, <3>1, Zenon
    <2>2. \A j \in 1 .. Len(flags') : Told(j, Past)'
      BY <1>2, <1>3, <1>6, Zenon DEF Told
    <2> QED
      BY <2>1, <2>2, Zenon DEF AtArgs
  <1> QED
    BY <1>2, <1>4, <1>7, Zenon DEF Reading, AtMatch, AtReturn

\* Lists stay lists where nothing is stored.
LEMMA ListsStay ==
  ASSUME Reading, UNCHANGED <<flags, args, base>>, pc # "idle"
  PROVE  Lists'
  BY Zenon DEF Reading, Lists

\* However it ends, if what was said stays said.
LEMMA ReturnReads ==
  ASSUME IInv, Reading, UNCHANGED <<flags, args, base>>, pc # "idle", pc' = "idle",
         Distinct => \A j \in 1 .. Len(flags) : Told(j, mark')
  PROVE  Reading'
  <1>1. ASSUME Distinct', NEW j \in 1 .. Len(flags') PROVE Told(j, mark)'
    <2>1. Told(j, mark')
      BY <1>1, ToldStays, Zenon
    <2> QED
      BY <2>1, ToldStays, Zenon DEF Told
  <1> QED
    BY <1>1, ListsStay, Zenon DEF Reading, AtArgs, AtMatch, AtReturn

\* The rest, a call for help and the end of the arguments end the parse between two arguments.
LEMMA EndReads ==
  ASSUME IInv, Reading, TakeRest \/ TakeHelp \/ EndOfArgs
  PROVE  Reading'
  <1>1. pc = "args" /\ pc' = "idle" /\ UNCHANGED <<flags, args, base>>
    BY Zenon DEF TakeRest, TakeHelp, EndOfArgs, Return, context
  <1>2. mark' = Past
    <2>1. CASE TakeRest \/ TakeHelp
      BY <2>1, Zenon DEF TakeRest, TakeHelp, Past
    <2>2. CASE EndOfArgs
      BY <2>2, StateFacts, Zenon DEF EndOfArgs
    <2> QED
      BY <2>1, <2>2
  <1>3. Distinct => \A j \in 1 .. Len(flags) : Told(j, mark')
    BY <1>1, <1>2, Zenon DEF Reading, AtArgs, Told
  <1> QED
    BY <1>1, <1>3, ReturnReads, Zenon

\* Taking an argument compares it with no flag yet.
LEMMA TakeFlagReads ==
  ASSUME IInv, Reading, TakeFlag
  PROVE  Reading'
  <1>1. /\ pc = "args" /\ pc' = "match" /\ argv # <<>> /\ UNCHANGED <<flags, args, base>>
        /\ cur' = Head(argv) /\ argv' = Tail(argv) /\ i' = 1 /\ found' = FALSE /\ mark' = Past
    BY Zenon DEF TakeFlag, context, Past
  <1>2. Past + 1 \in 1 .. Len(args) /\ Head(argv) = args[Past + 1] /\ Past \in 0 .. Len(args) /\ Len(args) \in Nat
    BY <1>1, StateFacts
  <1>3. Past' = Past + 1
    <2>1. argv \in Seq(Arg) /\ Len(args) \in Nat /\ args' = args
      BY <1>1 DEF IInv, Remaining
    <2>2. Len(argv') = Len(argv) - 1 /\ Len(argv) \in Nat
      BY <1>1, <2>1, HeadTailProperties
    <2> QED
      BY <2>1, <2>2 DEF Past
  <1>4. mark' < Len(args') /\ cur' = args'[mark' + 1]
    BY <1>1, <1>2
  <1>5. ~ \E j \in 1 .. i' - 1 : flags'[j].name = cur'.name
    BY <1>1
  <1>6. ASSUME Distinct PROVE IsFlagAt'[mark' + 1] /\ \A j \in 1 .. Len(flags') : Told(j, mark)' /\ ~(j < i')
    <2>1. IsFlagAt[Past + 1] /\ \A j \in 1 .. Len(flags) : Told(j, Past)
      BY <1>1, <1>6, Zenon DEF Reading, AtArgs
    <2>2. IsFlagAt'[mark' + 1]
      BY <1>1, <2>1, ToldStays, Zenon
    <2>3. \A j \in 1 .. Len(flags') : Told(j, mark)'
      BY <1>1, <2>1, ToldStays, Zenon DEF Told
    <2>4. \A j \in 1 .. Len(flags') : ~(j < i')
      BY <1>1
    <2> QED
      BY <2>2, <2>3, <2>4, Zenon
  <1>7. ASSUME Distinct, NEW j \in 1 .. Len(flags') PROVE Told(j, IF j < i THEN mark + 1 ELSE mark)'
    BY <1>6, <1>7, Zenon DEF Told
  <1>8. Past' = IF found' /\ ~cur'.eq THEN mark' + 2 ELSE mark' + 1
    BY <1>1, <1>3, Zenon
  <1>9. AtMatch'
    BY <1>1, <1>4, <1>5, <1>6, <1>7, <1>8, ToldStays, Zenon DEF AtMatch
  <1> QED
    BY <1>1, <1>9, ListsStay, Zenon DEF Reading, AtArgs, AtReturn

\* Under one name each, an argument that has met its flag meets no other.
LEMMA NotYetFound ==
  ASSUME IInv, Reading, pc = "match", Distinct, Matches \/ (i > Len(flags) /\ ~found)
  PROVE  \A j \in 1 .. i - 1 : flags[j].name # cur.name
  <1>1. CASE Matches
    <2>1. i \in 1 .. Len(flags) /\ DOMAIN flags = 1 .. Len(flags) /\ flags[i].name = cur.name
      BY <1>1, StateFacts DEF Matches
    <2>2. \A j \in 1 .. i - 1 : j \in DOMAIN flags /\ j # i
      BY <2>1
    <2> QED
      BY <2>1, <2>2, Zenon DEF Distinct
  <1>2. CASE i > Len(flags) /\ ~found
    BY <1>2, Zenon DEF Reading, AtMatch
  <1> QED
    BY <1>1, <1>2

\* A flag the argument does not name is said the same before and after it.
LEMMA OtherFlag ==
  ASSUME IInv, Reading, pc = "match", Distinct, NEW j \in 1 .. Len(flags), flags[j].name # cur.name
  PROVE  Told(j, mark + 1) <=> Told(j, mark)
  <1>1. mark \in Nat
    BY StateFacts
  <1>2. cur = args[mark + 1]
    BY Zenon DEF Reading, AtMatch
  <1>3. ~(IsFlagAt[mark + 1] /\ args[mark + 1].name = flags[j].name)
    BY <1>2, Zenon
  <1> QED
    BY <1>1, <1>3, SaysPast, Zenon DEF Told

\* A flag of another name is left alone.
LEMMA SkipReads ==
  ASSUME IInv, Reading, SkipFlag
  PROVE  Reading'
  <1>1. /\ pc = "match" /\ pc' = "match" /\ i <= Len(flags) /\ flags[i].name # cur.name
        /\ UNCHANGED <<flags, args, base>> /\ UNCHANGED <<mark, cur, found, argv>> /\ i' = i + 1
    BY Zenon DEF SkipFlag, context, Hist
  <1>2. i \in 1 .. Len(flags) /\ Past' = Past
    BY <1>1, StateFacts DEF Past
  <1> SUFFICES ASSUME Distinct PROVE AtMatch'
    <2>1. (Distinct => AtMatch') => AtMatch'
      BY <1>1, ToldStays, Zenon DEF AtMatch
    <2>2. Lists' /\ AtArgs' /\ AtReturn'
      BY <1>1, ListsStay, Zenon DEF AtArgs, AtReturn
    <2> QED
      BY <2>1, <2>2, Zenon DEF Reading
  <1>3. /\ mark < Len(args) /\ cur = args[mark + 1] /\ IsFlagAt[mark + 1]
        /\ Past = IF found /\ ~cur.eq THEN mark + 2 ELSE mark + 1
        /\ found <=> \E j \in 1 .. i - 1 : flags[j].name = cur.name
        /\ \A j \in 1 .. Len(flags) : Told(j, IF j < i THEN mark + 1 ELSE mark)
    BY <1>1, Zenon DEF Reading, AtMatch
  <1>4. mark' < Len(args') /\ cur' = args'[mark' + 1] /\ IsFlagAt'[mark' + 1]
    BY <1>1, <1>3, ToldStays, Zenon
  <1>5. Past' = IF found' /\ ~cur'.eq THEN mark' + 2 ELSE mark' + 1
    BY <1>1, <1>2, <1>3, Zenon
  <1>6. found' <=> \E j \in 1 .. i' - 1 : flags'[j].name = cur'.name
    <2>1. \A j : j \in 1 .. i' - 1 <=> j \in 1 .. i - 1 \/ j = i
      BY <1>1, <1>2
    <2> QED
      BY <1>1, <1>3, <2>1, Zenon
  <1>7. ASSUME NEW j \in 1 .. Len(flags) PROVE Told(j, IF j < i' THEN mark + 1 ELSE mark)
    <2>1. CASE j = i
      <3>1. ~(j < i) /\ j < i'
        BY <1>1, <1>2, <2>1
      <3>2. Told(j, mark)
        BY <1>3, <3>1, Zenon
      <3>3. Told(j, mark + 1)
        BY <1>1, <2>1, <3>2, OtherFlag, Zenon
      <3> QED
        BY <3>1, <3>3, Zenon
    <2>2. CASE j # i
      <3>1. j < i' <=> j < i
        BY <1>1, <1>2, <2>2
      <3> QED
        BY <1>3, <3>1, Zenon
    <2> QED
      BY <2>1, <2>2
  <1>8. ASSUME NEW j \in 1 .. Len(flags') PROVE Told(j, IF j < i THEN mark + 1 ELSE mark)'
    <2>1. Told(j, IF j < i' THEN mark + 1 ELSE mark)
      BY <1>1, <1>7, ToldStays, Zenon
    <2> QED
      BY <1>1, <2>1, ToldStays, Zenon DEF Told
  <1> QED
    BY <1>4, <1>5, <1>6, <1>8, Zenon DEF AtMatch

\* A parse that fails does so before the argument reaches any flag.
LEMMA FailReads ==
  ASSUME IInv, Reading, NoValue \/ BadValue \/ UnknownFlag
  PROVE  Reading'
  <1>1. /\ pc = "match" /\ pc' = "idle" /\ UNCHANGED <<flags, args, base>> /\ mark' = mark
        /\ Matches \/ (i > Len(flags) /\ ~found)
    BY Zenon DEF NoValue, BadValue, UnknownFlag, Fail, Return, Hist, Matches
  <1>2. ASSUME Distinct, NEW j \in 1 .. Len(flags) PROVE Told(j, mark)
    <2>1. Told(j, IF j < i THEN mark + 1 ELSE mark)
      BY <1>1, <1>2, Zenon DEF Reading, AtMatch
    <2>2. CASE j < i
      <3>1. j \in 1 .. i - 1
        BY <2>2, StateFacts
      <3>2. flags[j].name # cur.name
        BY <1>1, <1>2, <3>1, NotYetFound, Zenon
      <3> QED
        BY <1>1, <1>2, <2>1, <2>2, <3>2, OtherFlag, Zenon
    <2>3. CASE ~(j < i)
      BY <2>1, <2>3, Zenon
    <2> QED
      BY <2>2, <2>3
  <1> QED
    BY <1>1, <1>2, ReturnReads, Zenon DEF Told

\* The one flag of the name takes the value, which is what follows "=" or the next argument.
LEMMA StoreReads ==
  ASSUME IInv, IInv', Reading, StoreValue
  PROVE  Reading'
  <1> DEFINE new == Stores(flags[i], Read.is)
  <1>1. /\ pc = "match" /\ pc' = "match" /\ Matches /\ HasValue
        /\ UNCHANGED <<args, base>> /\ UNCHANGED <<mark, cur>> /\ i' = i + 1 /\ found' = TRUE
        /\ flags' = [flags EXCEPT ![i] = new] /\ argv' = IF cur.eq THEN argv ELSE Tail(argv)
    BY Zenon DEF StoreValue, Matches, Hist
  <1>2. PICK V : flags \in Seq(Flag(V))
    BY DEF IInv, Table
  <1>3. i \in 1 .. Len(flags) /\ flags[i] \in Flag(V) /\ flags[i].name = cur.name
    <2>1. i \in 1 .. Len(flags) /\ flags[i].name = cur.name
      BY <1>1, StateFacts DEF Matches
    <2> QED
      BY <1>2, <2>1, ElementOfSeq
  <1>4. /\ new.type = flags[i].type /\ new.name = flags[i].name /\ new.changed = TRUE
        /\ new.val = IF cur.ignore THEN flags[i].val
                     ELSE IF flags[i].type = "LIST" THEN Append(flags[i].val, Read.is) ELSE <<Read.is>>
    BY <1>3 DEF Stores, Flag
  <1> HIDE DEF new
  <1>5. Len(flags') = Len(flags) /\ \A j \in 1 .. Len(flags) : flags'[j] = IF j = i THEN new ELSE flags[j]
    BY <1>1, <1>2, <1>3
  <1>6. DOMAIN flags = 1 .. Len(flags) /\ DOMAIN flags' = 1 .. Len(flags)
    BY <1>1, <1>2, <1>5
  <1>7. \A j \in 1 .. Len(flags) : flags'[j].name = flags[j].name /\ flags'[j].type = flags[j].type
    BY <1>4, <1>5, Zenon
  <1>8. Distinct' <=> Distinct
    BY <1>6, <1>7, Zenon DEF Distinct
  <1>9. Lists'
    <2>1. flags[i].type = "LIST" => IsSequence(new.val)
      <3>1. CASE flags[i].type = "LIST"
        <4>1. PICK W : flags[i].val \in Seq(W)
          BY <1>3, <3>1, Zenon DEF Reading, Lists, IsSequence
        <4> DEFINE s == flags[i].val
                   x == Read.is
                   U == W \cup {x}
        <4>2. s \in Seq(W)
          BY <4>1
        <4> HIDE DEF s, x
        <4>3. s \in Seq(U) /\ x \in U
          BY <4>2, SeqMonotonic
        <4> HIDE DEF U
        <4>4. Append(s, x) \in Seq(U)
          BY <4>3
        <4> QED
          BY <1>4, <3>1, <4>1, <4>4, Zenon DEF IsSequence, s, x
      <3> QED
        BY <3>1
    <2>2. \A j \in 1 .. Len(flags') : flags'[j].type = "LIST" => IsSequence(flags'[j].val)
      BY <1>4, <1>5, <2>1, Zenon DEF Reading, Lists
    <2>3. \A j \in 1 .. Len(flags') : flags'[j].type = "LIST" => IsSequence(base'[j].val)
      BY <1>1, <1>5, <1>7, Zenon DEF Reading, Lists
    <2>4. Len(args') <= MaxArgs + 1
      BY <1>1, Zenon DEF Reading, Lists
    <2> QED
      BY <2>2, <2>3, <2>4, Zenon DEF Lists
  <1> SUFFICES ASSUME Distinct PROVE AtMatch'
    <2>1. (Distinct => AtMatch') => AtMatch'
      BY <1>8, Zenon DEF AtMatch
    <2>2. AtArgs' /\ AtReturn'
      BY <1>1, Zenon DEF AtArgs, AtReturn
    <2> QED
      BY <1>9, <2>1, <2>2, Zenon DEF Reading
  <1>10. /\ mark < Len(args) /\ cur = args[mark + 1] /\ IsFlagAt[mark + 1]
         /\ Past = IF found /\ ~cur.eq THEN mark + 2 ELSE mark + 1
         /\ found <=> \E j \in 1 .. i - 1 : flags[j].name = cur.name
         /\ \A j \in 1 .. Len(flags) : Told(j, IF j < i THEN mark + 1 ELSE mark)
    BY <1>1, Zenon DEF Reading, AtMatch
  <1>11. ~found
    BY <1>1, <1>10, NotYetFound, Zenon
  <1>12. Past = mark + 1 /\ mark \in Nat /\ mark + 1 \in Nat
    BY <1>10, <1>11, StateFacts
  <1>13. IsFlagAt' = IsFlagAt
    BY <1>1 DEF IsFlagAt
  <1>14. Past' = IF found' /\ ~cur'.eq THEN mark' + 2 ELSE mark' + 1
    <2>1. CASE cur.eq
      <3>1. Past' = Past
        BY <1>1, <2>1 DEF Past
      <3> QED
        BY <1>1, <1>12, <2>1, <3>1, Zenon
    <2>2. CASE ~cur.eq
      <3>1. argv # <<>> /\ argv' = Tail(argv) /\ argv \in Seq(Arg)
        BY <1>1, <2>2 DEF HasValue, IInv, Remaining
      <3>2. Len(argv') = Len(argv) - 1 /\ Len(argv) \in Nat /\ Len(args) \in Nat
        BY <3>1, HeadTailProperties, StateFacts
      <3>3. Past' = mark + 2
        <4>1. Past' = Len(args) - Len(argv') /\ Len(args) - Len(argv) = mark + 1
          BY <1>1, <1>12, Zenon DEF Past
        <4> QED
          BY <1>12, <3>2, <4>1
      <3> QED
        BY <1>1, <2>2, <3>3, Zenon
    <2> QED
      BY <2>1, <2>2
  <1>15. found' <=> \E j \in 1 .. i' - 1 : flags'[j].name = cur'.name
    <2>1. i \in 1 .. i' - 1
      BY <1>1, <1>3
    <2> QED
      BY <1>1, <1>3, <1>7, <2>1, Zenon
  <1>16. Says(IsFlagAt, args, base[i], new, mark + 1)
    <2>1. Says(IsFlagAt, args, base[i], flags[i], mark)
      <3>1. ~(i < i)
        BY <1>3
      <3> QED
        BY <1>3, <1>10, <3>1, Zenon DEF Told
    <2>2. args[mark + 1].name = flags[i].name
      BY <1>3, <1>10, Zenon
    <2>3. CASE cur.ignore
      <3>1. args[mark + 1].ignore /\ new.val = flags[i].val
        BY <1>4, <1>10, <2>3, Zenon
      <3> QED
        BY <1>4, <1>10, <1>12, <2>1, <2>2, <3>1, SaysIgnored, Zenon
    <2>4. CASE ~cur.ignore
      <3>1. ~args[mark + 1].ignore
        BY <1>10, <2>4, Zenon
      <3>2. Value = IF args[mark + 1].eq THEN args[mark + 1].value ELSE args[mark + 1 + 1].text
        <4>1. CASE cur.eq
          BY <1>10, <4>1, Zenon DEF Value
        <4>2. CASE ~cur.eq
          <5>1. argv # <<>>
            BY <1>1, <4>2, Zenon DEF HasValue
          <5>2. Head(argv) = args[mark + 1 + 1]
            BY <1>1, <1>12, <5>1, StateFacts
          <5> QED
            BY <1>10, <4>2, <5>2, Zenon DEF Value
        <4> QED
          BY <4>1, <4>2
      <3>3. Read.is = ReadAt(args, flags[i].type, mark + 1)
        BY <2>4, <3>2, Zenon DEF Read, ReadAt
      <3>4. new.val = IF flags[i].type = "LIST" THEN Append(flags[i].val, ReadAt(args, flags[i].type, mark + 1))
                      ELSE <<ReadAt(args, flags[i].type, mark + 1)>>
        BY <1>4, <2>4, <3>3, Zenon
      <3>5. flags[i].type = "LIST" => IsSequence(base[i].val)
        BY <1>1, <1>3, Zenon DEF Reading, Lists
      <3> QED
        BY <1>4, <1>10, <1>12, <2>1, <2>2, <3>1, <3>4, <3>5, SaysStored, Zenon
    <2> QED
      BY <2>3, <2>4
  <1>17. ASSUME NEW j \in 1 .. Len(flags') PROVE Told(j, IF j < i THEN mark + 1 ELSE mark)'
    <2>1. j \in 1 .. Len(flags)
      BY <1>5, Zenon
    <2>2. CASE j = i
      <3>1. j < i'
        BY <1>1, <1>3, <2>2
      <3>2. flags'[j] = new
        BY <1>5, <2>1, <2>2, Zenon
      <3> QED
        BY <1>1, <1>13, <1>16, <2>2, <3>1, <3>2, Zenon DEF Told
    <2>3. CASE j # i
      <3>1. j < i' <=> j < i
        BY <1>1, <1>3, <2>1, <2>3
      <3>2. flags'[j] = flags[j]
        BY <1>5, <2>1, <2>3, Zenon
      <3>3. Told(j, IF j < i THEN mark + 1 ELSE mark)
        BY <1>10, <2>1, Zenon
      <3>4. Says(IsFlagAt, args, base[j], flags[j], IF j < i THEN mark + 1 ELSE mark)
        BY <3>3, Zenon DEF Told
      <3> QED
        BY <1>1, <1>13, <3>1, <3>2, <3>4, Zenon DEF Told
    <2> QED
      BY <2>2, <2>3
  <1> QED
    BY <1>1, <1>10, <1>13, <1>14, <1>15, <1>17, Zenon DEF AtMatch

\* Past a flag and its value comes the next flag.
LEMMA NextArgumentReads ==
  ASSUME IInv, Reading, Alternates(IsFlagAt, args), NextArgument
  PROVE  Reading'
  <1>1. /\ pc = "match" /\ pc' = "args" /\ i > Len(flags) /\ found
        /\ UNCHANGED <<flags, args, base>> /\ UNCHANGED <<mark, argv>>
    BY Zenon DEF NextArgument, context, Hist
  <1> SUFFICES ASSUME Distinct PROVE (argv # <<>> => IsFlagAt[Past + 1]) /\ \A j \in 1 .. Len(flags) : Told(j, Past)
    <2>1. AtMatch' /\ AtReturn'
      BY <1>1, Zenon DEF AtMatch, AtReturn
    <2>2. Past' = Past
      BY <1>1, Zenon DEF Past
    <2>3. ASSUME Distinct', argv' # <<>> PROVE IsFlagAt'[Past' + 1]
      BY <1>1, <2>2, <2>3, ToldStays, Zenon
    <2>4. ASSUME Distinct', NEW j \in 1 .. Len(flags') PROVE Told(j, Past)'
      <3>1. Told(j, Past)
        BY <1>1, <2>4, ToldStays, Zenon
      <3> QED
        BY <1>1, <2>2, <3>1, ToldStays, Zenon DEF Told
    <2> QED
      BY <1>1, <2>1, <2>3, <2>4, ListsStay, Zenon DEF Reading, AtArgs
  <1>2. /\ mark < Len(args) /\ cur = args[mark + 1] /\ IsFlagAt[mark + 1]
        /\ Past = IF found /\ ~cur.eq THEN mark + 2 ELSE mark + 1
        /\ \A j \in 1 .. Len(flags) : Told(j, IF j < i THEN mark + 1 ELSE mark)
    BY <1>1, Zenon DEF Reading, AtMatch
  <1>3. ASSUME NEW j \in 1 .. Len(flags) PROVE Told(j, mark + 1)
    <2>1. j < i
      BY <1>1, StateFacts
    <2> QED
      BY <1>2, <2>1, Zenon
  <1>4. mark \in Nat /\ Len(args) \in Nat /\ Past \in Int /\ (argv # <<>> => Past + 1 \in 1 .. Len(args))
        /\ Past \in 0 .. Len(args) /\ Len(args) <= MaxArgs + 1 /\ MaxArgs \in Nat
    BY <1>1, StateFacts, FlagAssumption DEF Reading, Lists
  <1>5. ASSUME NEW k \in 1 .. MaxArgs PROVE IsFlagAt[k + 1] <=> ~(IsFlagAt[k] /\ ~args[k].eq)
    <2> DEFINE n == k + 1
    <2>1. n \in 2 .. MaxArgs + 1 /\ n - 1 = k
      BY <1>4
    <2> HIDE DEF n
    <2>2. IsFlagAt[n] <=> ~(IsFlagAt[n - 1] /\ ~args[n - 1].eq)
      BY <2>1, Zenon DEF Alternates
    <2> QED
      BY <2>1, <2>2, Zenon DEF n
  <1>6. CASE cur.eq
    <2>1. Past = mark + 1
      BY <1>2, <1>6, Zenon
    <2>2. ASSUME argv # <<>> PROVE IsFlagAt[Past + 1]
      <3>1. mark + 1 \in 1 .. MaxArgs
        BY <1>4, <2>1, <2>2
      <3> QED
        BY <1>2, <1>5, <1>6, <2>1, <3>1, Zenon
    <2> QED
      BY <1>3, <2>1, <2>2, Zenon
  <1>7. CASE ~cur.eq
    <2>1. Past = mark + 2
      BY <1>1, <1>2, <1>7, Zenon
    <2>2. mark + 1 \in 1 .. MaxArgs /\ mark + 1 \in Nat /\ mark + 2 = mark + 1 + 1
      BY <1>4, <2>1
    <2>3. ~IsFlagAt[mark + 2]
      BY <1>2, <1>5, <1>7, <2>2, Zenon
    <2>4. ASSUME argv # <<>> PROVE IsFlagAt[Past + 1]
      <3>1. mark + 2 \in 1 .. MaxArgs
        BY <1>4, <2>1, <2>4
      <3> QED
        BY <1>5, <2>1, <2>3, <3>1, Zenon
    <2>5. ASSUME NEW j \in 1 .. Len(flags) PROVE Told(j, Past)
      <3>1. Says(IsFlagAt, args, base[j], flags[j], mark + 1)
        BY <1>3, Zenon DEF Told
      <3>2. ~(IsFlagAt[mark + 1 + 1] /\ args[mark + 1 + 1].name = flags[j].name)
        BY <2>2, <2>3, Zenon
      <3>3. Says(IsFlagAt, args, base[j], flags[j], mark + 1 + 1)
        BY <2>2, <3>1, <3>2, SaysPast, Zenon
      <3> QED
        BY <2>1, <2>2, <3>3, Zenon DEF Told
    <2> QED
      BY <2>4, <2>5, Zenon
  <1> QED
    BY <1>6, <1>7, Zenon

\* A table that is reset or grows is no longer what the last parse left.
LEMMA ChangedReads ==
  ASSUME IInv, Reading, ContextReset \/ (\E type \in Types, name \in Names, mandatory \in BOOLEAN : Register(type, name, mandatory))
  PROVE  Reading'
  <1>1. pc' = "idle" /\ ret' = "none" /\ args' = <<>>
    BY Zenon DEF ContextReset, Register, Forget, Local
  <1>2. Len(args') <= MaxArgs + 1
    <2>1. Len(args') = 0
      BY <1>1, EmptySeq
    <2> QED
      BY <2>1, FlagAssumption
  <1>3. ASSUME NEW j \in 1 .. Len(flags'), flags'[j].type = "LIST" PROVE IsSequence(flags'[j].val)
    <2>1. CASE ContextReset
      <3>1. Len(flags') = 0
        BY <2>1, EmptySeq DEF ContextReset
      <3> QED
        BY <1>3, <3>1
    <2>2. ASSUME NEW type \in Types, NEW name \in Names, NEW mandatory \in BOOLEAN, Register(type, name, mandatory)
          PROVE  IsSequence(flags'[j].val)
      <3> DEFINE new == [type |-> type, name |-> name, mandatory |-> mandatory,
                         val |-> IF type = "LIST" THEN <<>> ELSE <<"default">>, changed |-> FALSE]
      <3>1. flags' = Append(flags, new)
        BY <2>2, Zenon DEF Register
      <3>2. PICK V : flags \in Seq(Flag(V))
        BY DEF IInv, Table
      <3>3. new.type = "LIST" => new.val \in Seq({})
        BY EmptySeq
      <3> HIDE DEF new
      <3>4. flags'[j] = IF j <= Len(flags) THEN flags[j] ELSE new
        BY <1>3, <3>1, <3>2
      <3>5. CASE j <= Len(flags)
        <4>1. j \in 1 .. Len(flags) /\ flags'[j] = flags[j]
          BY <3>2, <3>4, <3>5
        <4> QED
          BY <1>3, <4>1, Zenon DEF Reading, Lists
      <3>6. CASE ~(j <= Len(flags))
        BY <1>3, <3>3, <3>4, <3>6, Zenon DEF IsSequence
      <3> QED
        BY <3>5, <3>6
    <2> QED
      BY <2>1, <2>2, Zenon
  <1> QED
    BY <1>1, <1>2, <1>3, Zenon DEF Reading, Lists, AtArgs, AtMatch, AtReturn

\* Every step keeps the second invariant.
LEMMA ReadingStep ==
  ASSUME IInv, IInv', Reading, Alternates(IsFlagAt, args), Alternates(IsFlagAt, args)', [Next]_vars
  PROVE  Reading'
  <1>1. CASE FlagParse
    BY <1>1, BeginReads, Zenon
  <1>2. CASE UNCHANGED vars
    <2>1. UNCHANGED <<flags, args, base>> /\ UNCHANGED <<pc, ret, argv, cur, i, found, mark>>
      BY <1>2, Zenon DEF vars, context
    <2>2. Lists'
      BY <2>1, Zenon DEF Reading, Lists
    <2>3. Past' = Past
      BY <2>1, Zenon DEF Past
    <2>4. \A j : Told(j, IF j < i THEN mark + 1 ELSE mark)' = Told(j, IF j < i THEN mark + 1 ELSE mark)
      BY <2>1, ToldStays, Zenon DEF Told
    <2>5. \A j : Told(j, mark)' = Told(j, mark) /\ Told(j, Past)' = Told(j, Past)
      BY <2>1, <2>3, ToldStays, Zenon DEF Told
    <2>6. AtArgs'
      BY <2>1, <2>3, <2>5, ToldStays, Zenon DEF Reading, AtArgs
    <2>7. AtReturn'
      BY <2>1, <2>5, ToldStays, Zenon DEF Reading, AtReturn
    <2>8. AtMatch'
      BY <2>1, <2>3, <2>4, ToldStays, Zenon DEF Reading, AtMatch
    <2> QED
      BY <2>2, <2>6, <2>7, <2>8, Zenon DEF Reading
  <1> QED
    BY <1>1, <1>2, EndReads, TakeFlagReads, SkipReads, FailReads, StoreReads, NextArgumentReads, ChangedReads, Zenon
       DEF Next, Parsing

\* A program starts with nothing said.
LEMMA ReadingInit == Init => Reading
  <1> SUFFICES ASSUME Init PROVE Reading
    OBVIOUS
  <1>1. Len(flags) = 0 /\ Len(args) = 0
    BY EmptySeq DEF Init
  <1>2. Lists
    BY <1>1, FlagAssumption DEF Lists
  <1> QED
    BY <1>2, Zenon DEF Reading, Init, AtArgs, AtMatch, AtReturn

----------------------------------------------------------------------------
(***************************************************************************)
(* The second invariant holds in every reachable state, for any table and  *)
(* any arguments of flag_parse.                                            *)
(***************************************************************************)
THEOREM TableInvariant == Spec => []Reading
  <1>1. Reading /\ IInv /\ IInv' /\ Alternates(IsFlagAt, args) /\ Alternates(IsFlagAt, args)' /\ [Next]_vars => Reading'
    BY ReadingStep
  <1> QED
    BY ReadingInit, Invariant, FlagsAlternate, <1>1, PTL DEF Spec

(***************************************************************************)
(* However a parse ends, each flag is what the arguments before its end    *)
(* say, read from the left: its last value that was not ignored, a list    *)
(* all of them in order, and nothing of the argument a parse fails on      *)
(* (parser.h:362-772).  Flags that share a name are left out.              *)
(***************************************************************************)
THEOREM TableIsArgumentsHolds == Spec => []TableIsArguments
  <1>1. IInv /\ Reading => TableIsArguments
    <2> SUFFICES ASSUME IInv, Reading, pc = "idle", ret # "none", Distinct, NEW j \in DOMAIN flags
        PROVE  flags[j].val = Given(j) /\ flags[j].changed = (base[j].changed \/ Uses(flags[j].name) # {})
      BY Zenon DEF TableIsArguments
    <2>1. Says(IsFlagAt, args, base[j], flags[j], mark)
      <3>1. j \in 1 .. Len(flags)
        BY StateFacts
      <3> QED
        BY <3>1, Zenon DEF Reading, AtReturn, Told
    <2>2. Uses(flags[j].name) = UsesOf(IsFlagAt, args, flags[j].name, mark)
      BY Zenon DEF Uses, UsesOf
    <2>3. Kept(flags[j].name) = KeptOf(IsFlagAt, args, flags[j].name, mark)
      BY <2>2, Zenon DEF Kept, KeptOf
    <2>4. Given(j) = GivenOf(IsFlagAt, args, base[j], flags[j], mark)
      BY <2>3, Zenon DEF Given, GivenOf, InOrder, ReadAt, ValueAt
    <2> QED
      BY <2>1, <2>2, <2>4, Zenon DEF Says
  <1> QED
    BY TableInvariant, Invariant, <1>1, PTL
=============================================================================
