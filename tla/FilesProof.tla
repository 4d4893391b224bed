----------------------------- MODULE FilesProof -----------------------------
(***************************************************************************)
(* What holds of the files of a param_ctx: ParamFile (its Spec), CsvTable  *)
(* (Csv!Spec) and the scenes of MCFiles that compose them (MCSpec).        *)
(*                                                                         *)
(* Each module has an inductive invariant whose heart is what the file is  *)
(* after a save: line by line what was saved, but for what a crash cut     *)
(* off (SavedFile, CsvSaved).  What a parse has read is stated line by     *)
(* line from it, and the properties are what is left when it ends.         *)
(***************************************************************************)
EXTENDS MCFiles, SequenceTheorems, FiniteSetTheorems, WellFoundedInduction, TLAPS

(* Values and lines *)

\* Texts as a file can hold them: one word, or the items of a list.
IsText(text) ==
    \/ \E w : text = Plain(w)
    \/ \E w : text = Quoted(w)
    \/ \E V : \E s \in Seq(V) : text = List(s)

\* A line of a file, and what can end its value.
IsLine(line) ==
    /\ IsText(line.text)
    /\ line.key \in Names \cup {"other"} /\ line.ends \subseteq {"quote", "bracket", "blank"}
    /\ "quote" \in line.ends => line.text.shape = "quoted"
    /\ "bracket" \in line.ends => line.text.shape = "list"

\* The numbers a list, or a variable, of each type can hold.
IntItems  == {"0", "3", "-big"}
UintItems == {"0", "3", "big"}
Single(S) == {<<w>> : w \in S}

\* The values a variable of a type can have.
Holds(type, v) ==
    CASE type = "BOOL"  -> v \in Single({"true", "false"})
      [] type = "UINT"  -> v \in Single(UintItems)
      [] type = "INT"   -> v \in Single(IntItems)
      [] type = "FLOAT" -> v \in Single({"0", "3", "big", "-big", "tiny"})
      [] type = "INTLIST"  -> v \in Seq(IntItems) /\ Len(v) <= ArrayCap
      [] type = "UINTLIST" -> v \in Seq(UintItems) /\ Len(v) <= ArrayCap
      [] type = "BINARY" -> v \in Single(HexWords)
      [] OTHER -> \E w : v = <<w>>

\* The codes a value that is refused leaves in param_error.
Codes == {"UNKNOWN", "INVALID_NUMBER"}

\* What becomes of a text fits the variable.
Fits(type, o) ==
    \/ o = Keep \/ o = Skip \/ o = Dies
    \/ \E code \in Codes : o = Error(code)
    \/ \E v : Holds(type, v) /\ (o = Store(v) \/ o = Items(v))

\* A value without quotes or brackets is one word.
LEMMA PlainShape == ASSUME NEW w PROVE Plain(w).shape = "plain" /\ Plain(w).words = <<w>> /\ Plain(w).words[1] = w
  BY DEF Plain

\* Texts of one word differ where their words do.
LEMMA PlainIsOne == ASSUME NEW w, NEW x PROVE Plain(w) = Plain(x) <=> w = x
  BY DEF Plain

\* An empty value is no number and no word.
LEMMA EmptyText ==
  /\ NoText.shape = "plain" /\ NoText.words[1] \notin Numerals \cup HexWords
  /\ \A w : w # "" => NoText # Plain(w)
  BY DEF NoText, Plain, Numerals, HexWords

\* The shape of a text tells how it was built.
LEMMA TextShapes ==
  ASSUME NEW text, IsText(text)
  PROVE  /\ text.shape \in {"plain", "quoted", "list"}
         /\ text.shape = "plain" => \E w : text = Plain(w)
         /\ text.shape = "quoted" => \E w : text = Quoted(w)
         /\ text.shape = "list" => \E V : \E s \in Seq(V) : text = List(s)
  BY DEF IsText, Plain, Quoted, List

\* param_parse_txt of a BOOL stores true or false.
LEMMA BoolFits ==
  ASSUME NEW text, IsText(text)
  PROVE  Fits("BOOL", ReadBool(text))
  <1>1. Holds("BOOL", <<"true">>) /\ Holds("BOOL", <<"false">>)
    BY DEF Holds, Single
  <1> QED
    <2>1. ReadBool(text) \in {Store(<<"true">>), Store(<<"false">>), Error("UNKNOWN")}
      BY DEF ReadBool
    <2> QED
      BY <1>1, <2>1, Zenon DEF Fits, Codes

\* param_parse_txt of an INT stores a number of an int, or refuses.
LEMMA IntFits ==
  ASSUME NEW text, IsText(text)
  PROVE  Fits("INT", ReadInt(text))
  <1>1. ASSUME NEW w \in IntItems PROVE Holds("INT", <<w>>)
    BY DEF Holds, Single
  <1>2. CASE text.shape # "plain" \/ text.words[1] \notin Numerals
    BY <1>1, <1>2, Zenon DEF ReadInt, Fits, IntItems
  <1>3. CASE text = Plain("big")
    <2>1. text.shape = "plain" /\ text.words[1] \in Numerals
      BY <1>3 DEF Plain, Numerals
    <2> QED
      BY <1>1, <1>3, <2>1, Zenon DEF ReadInt, Fits, IntItems
  <1>4. CASE text.shape = "plain" /\ text.words[1] \in Numerals /\ text # Plain("big")
    <2>1. PICK w : text = Plain(w)
      BY <1>4, TextShapes
    <2>2. text.words = <<w>> /\ w \in IntItems
      BY <1>4, <2>1, PlainShape DEF Numerals, IntItems
    <2> QED
      BY <1>1, <1>4, <2>2, Zenon DEF ReadInt, Fits
  <1> QED
    BY <1>2, <1>3, <1>4

\* param_parse_txt of a UINT stores a number of a size_t, or refuses.
LEMMA UintFits ==
  ASSUME NEW text, IsText(text)
  PROVE  Fits("UINT", ReadUint(text))
  <1>1. ASSUME NEW w \in UintItems PROVE Holds("UINT", <<w>>)
    BY DEF Holds, Single
  <1>2. CASE text = NoText
    <2>1. ReadUint(text) = Store(<<"0">>)
      BY <1>2, EmptyText DEF ReadUint
    <2> QED
      BY <1>1, <2>1, Zenon DEF Fits, UintItems
  <1>3. CASE text = Plain("-big")
    <2>1. text # NoText /\ text.words[1] = "-big"
      BY <1>3, EmptyText, PlainShape
    <2>2. ReadUint(text) = Store(<<"big">>)
      BY <1>3, <2>1 DEF ReadUint
    <2> QED
      BY <1>1, <2>2, Zenon DEF Fits, UintItems
  <1>4. CASE text # NoText /\ text # Plain("-big") /\ text.shape = "plain" /\ text.words[1] \in Numerals \ {"-big"}
    <2>1. PICK w : text = Plain(w)
      BY <1>4, TextShapes
    <2>2. text.words = <<w>> /\ w \in UintItems
      BY <1>4, <2>1, PlainShape DEF Numerals, UintItems
    <2> QED
      BY <1>1, <1>4, <2>2, Zenon DEF ReadUint, Fits
  <1>5. CASE text # NoText /\ text # Plain("-big") /\ ~(text.shape = "plain" /\ text.words[1] \in Numerals \ {"-big"})
    BY <1>5, Zenon DEF ReadUint, Fits, Codes
  <1> QED
    BY <1>2, <1>3, <1>4, <1>5, Zenon

\* param_parse_txt of a FLOAT stores a number, or refuses.
LEMMA FloatFits ==
  ASSUME NEW text, IsText(text)
  PROVE  Fits("FLOAT", ReadFloat(text))
  <1>1. ASSUME NEW w \in Numerals PROVE Holds("FLOAT", <<w>>)
    BY DEF Holds, Single, Numerals
  <1>2. CASE text = NoText
    <2>1. ReadFloat(text) = Store(<<"0">>)
      BY <1>2, EmptyText DEF ReadFloat
    <2> QED
      BY <1>1, <2>1, Zenon DEF Fits, Numerals
  <1>3. CASE text # NoText /\ text.shape = "plain" /\ text.words[1] \in Numerals
    <2>1. PICK w : text = Plain(w)
      BY <1>3, TextShapes
    <2>2. text.words = <<w>> /\ w \in Numerals
      BY <1>3, <2>1, PlainShape
    <2> QED
      BY <1>1, <1>3, <2>2, Zenon DEF ReadFloat, Fits
  <1>4. CASE text # NoText /\ ~(text.shape = "plain" /\ text.words[1] \in Numerals)
    BY <1>4, Zenon DEF ReadFloat, Fits, Codes
  <1> QED
    BY <1>2, <1>3, <1>4, Zenon

\* param_parse_txt of a BINARY stores what strtoul makes of the word.
LEMMA BinaryFits ==
  ASSUME NEW text, IsText(text), NEW o \in ReadBinary(text)
  PROVE  Fits("BINARY", o)
  <1>1. ASSUME NEW w \in HexWords PROVE Holds("BINARY", <<w>>)
    BY DEF Holds, Single
  <1>2. CASE text = NoText
    <2>1. o = Keep
      BY <1>2, EmptyText DEF ReadBinary
    <2> QED
      BY <2>1, Zenon DEF Fits
  <1>3. CASE text # NoText /\ text.shape = "plain" /\ text.words[1] \in HexWords
    <2>1. PICK w : text = Plain(w)
      BY <1>3, TextShapes
    <2>2. text.words = <<w>> /\ w \in HexWords
      BY <1>3, <2>1, PlainShape
    <2>3. o \in {Store(<<w>>), Store(<<"garbage">>)}
      BY <1>3, <2>2, Zenon DEF ReadBinary
    <2> QED
      BY <1>1, <2>2, <2>3, Zenon DEF Fits, HexWords
  <1>4. CASE text # NoText /\ ~(text.shape = "plain" /\ text.words[1] \in HexWords)
    <2>1. o \in {Store(<<"garbage">>), Dies}
      BY <1>4, Zenon DEF ReadBinary
    <2> QED
      BY <1>1, <2>1, Zenon DEF Fits, HexWords
  <1> QED
    BY <1>2, <1>3, <1>4, Zenon

\* param_parse_txt of a STR stores what is between the quotes.
LEMMA StrFits ==
  ASSUME NEW text, IsText(text), text.shape = "quoted"
  PROVE  Fits("STR", ReadStr(text))
  <1>1. PICK w : text = Quoted(w)
    BY TextShapes
  <1>2. text.words = <<w>>
    BY <1>1 DEF Quoted
  <1>3. Holds("STR", <<w>>)
    BY Zenon DEF Holds
  <1> QED
    BY <1>2, <1>3, Zenon DEF ReadStr, Fits

\* A bounded set of numbers that is not empty has a largest one.
LEMMA HasLargest ==
  ASSUME NEW n \in Nat, NEW S, S \subseteq 0 .. n, S # {}
  PROVE  \E m \in S : \A j \in S : j <= m
  <1> DEFINE T == {n - j : j \in S}
  <1>1. T \subseteq Nat /\ T # {}
    <2>1. \A j \in S : n - j \in Nat
      OBVIOUS
    <2> QED
      BY <2>1
  <1>2. PICK x \in T : \A y \in T : ~(<<y, x>> \in OpToRel(<, Nat))
    BY <1>1, NatLessThanWellFounded, WFMin
  <1>3. \A y \in T : ~(y < x)
    BY <1>1, <1>2 DEF OpToRel
  <1>4. PICK m \in S : x = n - m
    OBVIOUS
  <1>5. \A j \in S : m >= j
    BY <1>3, <1>4
  <1> QED
    BY <1>5

\* The number of items of a list that are read before one is refused.
Good(type, items, n) ==
    /\ n \in 0 .. Len(items)
    /\ IsGood(type, items, n)
    /\ n < Len(items) => ~IsGood(type, items, n + 1)

\* There is such a number.
LEMMA GoodExists ==
  ASSUME NEW type, NEW V, NEW s \in Seq(V)
  PROVE  \E n : Good(type, s, n)
  <1> DEFINE S == {n \in 0 .. Len(s) : IsGood(type, s, n)}
  <1>1. 0 \in S /\ S \subseteq 0 .. Len(s) /\ Len(s) \in Nat
    BY ParamAssumption DEF IsGood
  <1>2. PICK m \in S : \A j \in S : j <= m
    <2> HIDE DEF S
    <2> QED
      BY <1>1, HasLargest
  <1>3. m < Len(s) => ~IsGood(type, s, m + 1)
    BY <1>1, <1>2
  <1> QED
    BY <1>2, <1>3 DEF Good

\* All of the items are read if all of them are good.
LEMMA GoodOfAll ==
  ASSUME NEW type, NEW V, NEW s \in Seq(V), NEW n, Good(type, s, n), IsGood(type, s, Len(s))
  PROVE  n = Len(s)
  <1>1. n \in 0 .. Len(s) /\ Len(s) \in Nat /\ (n < Len(s) => ~IsGood(type, s, n + 1))
    BY DEF Good
  <1>2. n < Len(s) => IsGood(type, s, n + 1)
    <2>1. /\ Len(s) <= ListCap /\ ListCap \in Nat
          /\ \A j \in 1 .. Len(s) : IsItem(type, s[j])
      BY ParamAssumption DEF IsGood
    <2> SUFFICES ASSUME n < Len(s) PROVE IsGood(type, s, n + 1)
      OBVIOUS
    <2>2. n + 1 <= ListCap
      BY <1>1, <2>1
    <2>3. \A j \in 1 .. n + 1 : IsItem(type, s[j])
      BY <1>1, <2>1
    <2> QED
      BY <2>2, <2>3, Zenon DEF IsGood
  <1> QED
    BY <1>1, <1>2

\* The items of a list type.
ItemsOf(type) == IF type = "INTLIST" THEN IntItems ELSE UintItems

\* A list that is read fits the array of its variable, however long its line is.
LEMMA ListFits ==
  ASSUME NEW type \in ListTypes, NEW text, IsText(text)
  PROVE  Fits(type, ReadList(type, text))
  <1> DEFINE g == CHOOSE n \in 0 .. Len(text.words) :
                    /\ IsGood(type, text.words, n)
                    /\ n < Len(text.words) => ~IsGood(type, text.words, n + 1)
  <1>1. CASE text.shape # "list"
    BY <1>1, Zenon DEF ReadList, Fits
  <1>2. CASE text.shape = "list"
    <2>1. PICK V : \E s \in Seq(V) : text = List(s)
      BY <1>2, TextShapes
    <2> DEFINE s == text.words
    <2>2. s \in Seq(V)
      BY <2>1 DEF List
    <2>3. Good(type, s, g)
      <3>1. \E n : Good(type, s, n)
        <4> HIDE DEF s
        <4> QED
          BY <2>2, GoodExists
      <3> QED
        BY <3>1 DEF Good
    <2>4. ReadList(type, text) \in {Keep, Store(s), Skip, Items(SubSeq(s, 1, g))} /\ (ReadList(type, text) = Store(s) => g = Len(s))
      <3>1. CASE s = <<>>
        BY <1>2, <3>1 DEF ReadList, Keep, Store
      <3>2. CASE s # <<>> /\ g = Len(s)
        BY <1>2, <3>2 DEF ReadList
      <3>3. CASE s # <<>> /\ g # Len(s)
        BY <1>2, <3>3 DEF ReadList, Store, Skip, Items
      <3> QED
        BY <3>1, <3>2, <3>3
    <2> HIDE DEF s, g
    <2>5. ASSUME NEW t, t \in Seq(ItemsOf(type)), Len(t) <= ListCap PROVE Holds(type, t)
      <3>1. Len(t) <= ArrayCap
        BY <2>5, ParamAssumption
      <3> QED
        BY <2>5, <3>1 DEF Holds, ItemsOf, ListTypes
    <2>6. g \in 0 .. Len(s) /\ Len(s) \in Nat /\ g <= ListCap /\ \A j \in 1 .. g : s[j] \in ItemsOf(type)
      <3>1. g \in 0 .. Len(s) /\ Len(s) \in Nat /\ g <= ListCap /\ \A j \in 1 .. g : IsItem(type, s[j])
        BY <2>2, <2>3, Zenon, LenProperties DEF Good, IsGood
      <3> QED
        BY <3>1 DEF IsItem, ItemsOf, IntItems, UintItems, ListTypes
    <2>7. Holds(type, SubSeq(s, 1, g))
      <3>1. SubSeq(s, 1, g) \in Seq(V) /\ Len(SubSeq(s, 1, g)) = g /\ \A j \in 1 .. g : SubSeq(s, 1, g)[j] = s[j]
        BY <2>2, <2>6
      <3>2. SubSeq(s, 1, g) \in Seq(ItemsOf(type))
        BY <2>6, <3>1
      <3> QED
        BY <2>5, <2>6, <3>1, <3>2
    <2>8. ReadList(type, text) = Store(s) => Holds(type, s)
      <3> SUFFICES ASSUME g = Len(s) PROVE Holds(type, s)
        BY <2>4
      <3>1. s \in Seq(ItemsOf(type)) /\ Len(s) <= ListCap
        BY <2>2, <2>6
      <3> QED
        BY <2>5, <3>1
    <2> QED
      BY <2>4, <2>7, <2>8, Zenon DEF Fits
  <1> QED
    BY <1>1, <1>2

\* Whatever the line, what it is read as fits the variable.
LEMMA OutcomesFit ==
  ASSUME NEW type \in AllTypes, NEW line, IsLine(line), NEW o \in Outcomes(type, line)
  PROVE  Fits(type, o)
  <1>1. IsText(line.text) /\ ("quote" \in line.ends => line.text.shape = "quoted")
    BY Zenon DEF IsLine
  <1>2. CASE Terminator(type) \notin line.ends
    <2>1. o = Dies \/ o = Skip \/ (type = "STR" /\ o = Store(<<"stale">>))
      BY <1>2, Zenon DEF Outcomes
    <2>2. Holds("STR", <<"stale">>)
      BY Zenon DEF Holds
    <2> QED
      BY <2>1, <2>2, Zenon DEF Fits
  <1>3. CASE Terminator(type) \in line.ends
    <2>1. o \in Convert(type, line.text)
      BY <1>3, Zenon DEF Outcomes
    <2>2. CASE type = "BOOL"
      BY <1>1, <2>1, <2>2, BoolFits DEF Convert
    <2>3. CASE type = "INT"
      BY <1>1, <2>1, <2>3, IntFits DEF Convert
    <2>4. CASE type = "UINT"
      BY <1>1, <2>1, <2>4, UintFits DEF Convert
    <2>5. CASE type = "FLOAT"
      BY <1>1, <2>1, <2>5, FloatFits DEF Convert
    <2>6. CASE type = "BINARY"
      BY <1>1, <2>1, <2>6, BinaryFits DEF Convert
    <2>7. CASE type = "STR"
      <3>1. line.text.shape = "quoted"
        BY <1>1, <1>3, <2>7 DEF Terminator, ListTypes
      <3> QED
        BY <1>1, <2>1, <2>7, <3>1, StrFits DEF Convert
    <2>8. CASE type \in ListTypes
      BY <1>1, <2>1, <2>8, ListFits DEF Convert, ListTypes
    <2> QED
      BY <2>2, <2>3, <2>4, <2>5, <2>6, <2>7, <2>8 DEF AllTypes
  <1> QED
    BY <1>2, <1>3

\* ParamBool .. ParamBin start a variable with a value of its type.
LEMMA DefaultHolds ==
  ASSUME NEW type \in AllTypes
  PROVE  Holds(type, Default(type))
  BY ParamAssumption DEF AllTypes, ListTypes, Default, Holds, Single, HexWords, IntItems, UintItems

\* What the program may put in a variable is a value of its type.
LEMMA ValuesHold ==
  ASSUME NEW type \in AllTypes, NEW v \in Values(type)
  PROVE  Holds(type, v)
  <1> USE ParamAssumption
  <1>1. \A w \in Numbers : w \in UintItems /\ Signed(w) \in IntItems
    BY DEF UintItems, IntItems, Signed
  <1>2. CASE type = "BOOL"
    BY <1>2 DEF Values, Holds, Single
  <1>3. CASE type = "UINT"
    BY <1>1, <1>3 DEF Values, Holds, Single
  <1>4. CASE type = "INT"
    BY <1>1, <1>4 DEF Values, Holds, Single
  <1>5. CASE type = "FLOAT"
    BY <1>5 DEF Values, Holds, Single
  <1>6. CASE type = "STR" \/ type = "BINARY"
    BY <1>6 DEF Values, Holds, Single, HexWords
  <1>7. CASE type = "INTLIST"
    <2>1. PICK n \in 0 .. ArrayCap : v \in [1 .. n -> {Signed(w) : w \in Numbers}]
      BY <1>7 DEF Values
    <2>2. v \in Seq(IntItems) /\ Len(v) = n
      <3>1. v \in [1 .. n -> IntItems]
        BY <1>1, <2>1
      <3> QED
        BY <3>1, SeqDef, LenProperties
    <2> QED
      BY <1>7, <2>2 DEF Holds
  <1>8. CASE type = "UINTLIST"
    <2>1. PICK n \in 0 .. ArrayCap : v \in [1 .. n -> Numbers]
      BY <1>8 DEF Values
    <2>2. v \in Seq(UintItems) /\ Len(v) = n
      <3>1. v \in [1 .. n -> UintItems]
        BY <1>1, <2>1
      <3> QED
        BY <3>1, SeqDef, LenProperties
    <2> QED
      BY <1>8, <2>2 DEF Holds
  <1> QED
    BY <1>2, <1>3, <1>4, <1>5, <1>6, <1>7, <1>8 DEF AllTypes, ListTypes

\* How the value of a type is written.
Shape(type) == CASE type = "STR" -> "quoted" [] type \in ListTypes -> "list" [] OTHER -> "plain"

\* What ParamSave writes has the shape of the type and a word for each item.
LEMMA SavedFacts ==
  ASSUME NEW type, NEW v
  PROVE  /\ SavedText(type, v).shape = Shape(type)
         /\ SavedText(type, v).words = [j \in DOMAIN v |-> SavedWord(type, v[j])]
  BY DEF SavedText, Shape

\* What ParamSave writes of a variable that is not a list.
LEMMA SavedSingle ==
  ASSUME NEW type \in AllTypes \ ListTypes, NEW w
  PROVE  SavedText(type, <<w>>) = IF type = "STR" THEN Quoted(SavedWord(type, w)) ELSE Plain(SavedWord(type, w))
  <1>1. [j \in DOMAIN <<w>> |-> SavedWord(type, <<w>>[j])] = <<SavedWord(type, w)>>
    OBVIOUS
  <1>2. Shape(type) = IF type = "STR" THEN "quoted" ELSE "plain"
    BY DEF Shape
  <1> QED
    BY <1>1, <1>2 DEF SavedText, Shape, Quoted, Plain

\* What ParamSave writes of a list.
LEMMA SavedList ==
  ASSUME NEW type \in ListTypes, NEW V, NEW v \in Seq(V)
  PROVE  \E W : \E s \in Seq(W) : SavedText(type, v) = List(s) /\ s = [j \in 1 .. Len(v) |-> SavedWord(type, v[j])] /\ Len(s) = Len(v)
  <1> DEFINE s == [j \in 1 .. Len(v) |-> SavedWord(type, v[j])]
             W == {SavedWord(type, v[j]) : j \in 1 .. Len(v)}
  <1>1. s \in [1 .. Len(v) -> W]
    OBVIOUS
  <1>2. s \in Seq(W) /\ Len(s) = Len(v)
    <2> HIDE DEF s, W
    <2> QED
      BY <1>1, SeqDef, LenProperties
  <1>3. SavedText(type, v) = List(s)
    BY DEF SavedText, List, ListTypes
  <1> QED
    BY <1>2, <1>3

\* A variable that is not a list holds one value.
LEMMA HoldsSingle ==
  ASSUME NEW type \in AllTypes \ ListTypes, NEW v, Holds(type, v)
  PROVE  \E w : v = <<w>>
  BY DEF Holds, Single, AllTypes, ListTypes

\* A list holds items of its type, at most ArrayCap.
LEMMA HoldsList ==
  ASSUME NEW type \in ListTypes, NEW v, Holds(type, v)
  PROVE  v \in Seq(ItemsOf(type)) /\ Len(v) <= ArrayCap
  BY DEF Holds, ListTypes, ItemsOf

\* What is saved of a variable is a text.
LEMMA SavedIsText ==
  ASSUME NEW type \in AllTypes, NEW v, Holds(type, v)
  PROVE  IsText(SavedText(type, v))
  <1>1. CASE type \in ListTypes
    BY <1>1, HoldsList, SavedList DEF IsText
  <1>2. CASE type \notin ListTypes
    BY <1>2, HoldsSingle, SavedSingle DEF IsText
  <1> QED
    BY <1>1, <1>2

\* What ends a text that is saved: its quote or bracket, unless it is empty.
LEMMA EndsFacts ==
  ASSUME NEW text, IsText(text)
  PROVE  /\ SavedEnds(text) \subseteq {"quote", "bracket", "blank"}
         /\ "blank" \in SavedEnds(text)
         /\ "quote" \in SavedEnds(text) <=> text.shape = "quoted" /\ text.words # <<>>
         /\ "bracket" \in SavedEnds(text) <=> text.shape = "list" /\ text.words # <<>>
  BY TextShapes DEF SavedEnds, Closing

\* What is saved, and what a crash leaves of it, are lines.
LEMMA SavedIsLine ==
  ASSUME NEW type \in AllTypes, NEW v, Holds(type, v), NEW name \in Names
  PROVE  IsLine(Line(name, SavedText(type, v), SavedEnds(SavedText(type, v))))
  BY SavedIsText, EndsFacts DEF IsLine, Line

\* A part of a line has its key, and its whole text if the end of the value is there.
LEMMA RemainsFacts ==
  ASSUME NEW key, NEW text, NEW ends, NEW part \in Remains(Line(key, text, ends))
  PROVE  /\ part.key = key
         /\ part.ends \subseteq ends
         /\ \/ part.text = text /\ ends \ {"blank"} \subseteq part.ends
            \/ part.ends = {} /\ \E w : part.text = Plain(w)
  <1> DEFINE line == Line(key, text, ends)
  <1>1. line.key = key /\ line.text = text /\ line.ends = ends
    BY DEF Line
  <1>2. \/ part = line
        \/ part = [line EXCEPT !.ends = @ \ {"blank"}]
        \/ part = [line EXCEPT !.ends = {}, !.text = NoText]
        \/ part = [line EXCEPT !.ends = {}, !.text = Plain("cut")]
    BY DEF Remains
  <1>3. CASE part = line
    BY <1>1, <1>3
  <1>4. CASE part = [line EXCEPT !.ends = @ \ {"blank"}]
    <2>1. part = Line(key, text, ends \ {"blank"})
      BY <1>4 DEF Line
    <2> QED
      BY <2>1 DEF Line
  <1>5. CASE part = [line EXCEPT !.ends = {}, !.text = NoText]
    <2>1. part = Line(key, Plain(""), {})
      BY <1>5 DEF Line, NoText
    <2> QED
      BY <2>1 DEF Line
  <1>6. CASE part = [line EXCEPT !.ends = {}, !.text = Plain("cut")]
    <2>1. part = Line(key, Plain("cut"), {})
      BY <1>6 DEF Line
    <2> QED
      BY <2>1 DEF Line
  <1> QED
    BY <1>2, <1>3, <1>4, <1>5, <1>6

\* A part of a line is a line.
LEMMA RemainsIsLine ==
  ASSUME NEW key, NEW text, NEW ends, IsLine(Line(key, text, ends)), NEW part \in Remains(Line(key, text, ends))
  PROVE  IsLine(part)
  <1>1. IsText(text) /\ key \in Names \cup {"other"} /\ ends \subseteq {"quote", "bracket", "blank"}
        /\ ("quote" \in ends => text.shape = "quoted") /\ ("bracket" \in ends => text.shape = "list")
    BY DEF IsLine, Line
  <1>2. IsText(part.text)
    BY <1>1, RemainsFacts, Zenon DEF IsText
  <1>3. part.key = key /\ part.ends \subseteq ends /\ (part.text = text \/ part.ends = {})
    BY RemainsFacts
  <1> QED
    BY <1>1, <1>2, <1>3 DEF IsLine

\* Only a value that is not empty comes back.
LEMMA SurvivorIsNotEmpty ==
  ASSUME NEW type \in AllTypes, NEW v, Holds(type, v), Survives(type, v)
  PROVE  v # <<>>
  <1>1. CASE type \in ListTypes
    <2>1. Len(v) # 0
      BY <1>1 DEF Survives, ListTypes
    <2> QED
      BY <2>1
  <1>2. CASE type \notin ListTypes
    BY <1>2, HoldsSingle
  <1> QED
    BY <1>1, <1>2

\* A line that has all of its value.
Intact(type, line, v) == Terminator(type) \in line.ends /\ line.text = SavedText(type, v)

\* A line that is written whole is intact, unless it is an empty list.
LEMMA WholeIsIntact ==
  ASSUME NEW type \in AllTypes, NEW v, Holds(type, v), v # <<>>, NEW name
  PROVE  Intact(type, Line(name, SavedText(type, v), SavedEnds(SavedText(type, v))), v)
  <1>1. IsText(SavedText(type, v))
    BY SavedIsText
  <1>2. SavedText(type, v).shape = Shape(type)
    BY SavedFacts
  <1>3. SavedText(type, v).words # <<>>
    <2>1. CASE type \in ListTypes
      <3>1. Len(v) # 0
        BY <2>1, HoldsList, EmptySeq
      <3> QED
        BY <2>1, <3>1, HoldsList, SavedList DEF List
    <2>2. CASE type \notin ListTypes
      <3>1. PICK w : v = <<w>>
        BY <2>2, HoldsSingle
      <3>2. SavedText(type, v).words = <<SavedWord(type, w)>>
        <4>1. SavedText(type, v) = IF type = "STR" THEN Quoted(SavedWord(type, w)) ELSE Plain(SavedWord(type, w))
          BY <2>2, <3>1, SavedSingle
        <4> QED
          BY <4>1 DEF Quoted, Plain
      <3> QED
        BY <3>2
    <2> QED
      BY <2>1, <2>2
  <1>4. Terminator(type) \in SavedEnds(SavedText(type, v))
    BY <1>1, <1>2, <1>3, EndsFacts DEF Shape, Terminator, ListTypes
  <1> QED
    BY <1>4 DEF Intact, Line

\* Of a line that was cut the value is whole, or nothing ends it.
LEMMA CutIsIntact ==
  ASSUME NEW type, NEW v, NEW name,
         NEW part \in Remains(Line(name, SavedText(type, v), SavedEnds(SavedText(type, v)))),
         Terminator(type) \in part.ends
  PROVE  Intact(type, part, v)
  BY RemainsFacts DEF Intact

\* A value that survives a save is read back from its line, and nothing else is.
LEMMA ReadsBack ==
  ASSUME NEW type \in AllTypes, NEW v, Holds(type, v), Survives(type, v), NEW line, Intact(type, line, v)
  PROVE  Outcomes(type, line) = {Store(v)}
  <1>1. Outcomes(type, line) = Convert(type, SavedText(type, v))
    BY DEF Outcomes, Intact
  <1>2. CASE type \notin ListTypes
    <2>1. PICK w : v = <<w>>
      BY <1>2, HoldsSingle
    <2> DEFINE x == SavedWord(type, w)
    <2>2. SavedText(type, v) = IF type = "STR" THEN Quoted(x) ELSE Plain(x)
      BY <1>2, <2>1, SavedSingle
    <2>3. CASE type = "BOOL"
      <3>1. w \in {"true", "false"} /\ x = w
        BY <2>1, <2>3 DEF Holds, Single, SavedWord
      <3>2. ReadBool(Plain(w)) = Store(<<w>>)
        BY <3>1, PlainIsOne DEF ReadBool
      <3> QED
        BY <1>1, <2>1, <2>2, <2>3, <3>1, <3>2 DEF Convert, ListTypes
    <2>4. CASE type = "INT"
      <3>1. w \in IntItems /\ x = w
        BY <2>1, <2>4 DEF Holds, Single, SavedWord
      <3>2. w \in Numerals /\ w # "big"
        BY <3>1 DEF IntItems, Numerals
      <3>3. ReadInt(Plain(w)) = Store(<<w>>)
        BY <3>2, PlainIsOne, PlainShape DEF ReadInt
      <3> QED
        BY <1>1, <2>1, <2>2, <2>4, <3>1, <3>3 DEF Convert, ListTypes
    <2>5. CASE type = "UINT"
      <3>1. w \in UintItems /\ x = IF w = "big" THEN "-big" ELSE w
        BY <2>1, <2>5 DEF Holds, Single, SavedWord
      <3>2. w \in Numerals /\ w # "-big" /\ w # ""
        BY <3>1 DEF UintItems, Numerals
      <3>3. ReadUint(Plain(x)) = Store(<<w>>)
        <4>1. CASE w = "big"
          <5>1. Plain(x) = Plain("-big") /\ Plain(x) # NoText /\ Plain(x).words[1] = "-big"
            BY <3>1, <4>1, EmptyText, PlainShape
          <5> QED
            BY <4>1, <5>1 DEF ReadUint
        <4>2. CASE w # "big"
          <5>1. Plain(x) # Plain("-big") /\ Plain(x) # NoText /\ Plain(x).words = <<w>> /\ Plain(x).words[1] = w /\ Plain(x).shape = "plain"
            BY <3>1, <3>2, <4>2, EmptyText, PlainShape, PlainIsOne
          <5> QED
            BY <3>2, <5>1 DEF ReadUint
        <4> QED
          BY <4>1, <4>2
      <3> QED
        BY <1>1, <2>1, <2>2, <2>5, <3>3 DEF Convert, ListTypes
    <2>6. CASE type = "FLOAT"
      <3>1. w \in Numerals /\ x = w /\ w # ""
        BY <2>1, <2>6 DEF Holds, Single, SavedWord, Survives, Numerals, ListTypes
      <3>2. ReadFloat(Plain(w)) = Store(<<w>>)
        BY <3>1, EmptyText, PlainShape DEF ReadFloat
      <3> QED
        BY <1>1, <2>1, <2>2, <2>6, <3>1, <3>2 DEF Convert, ListTypes
    <2>7. CASE type = "STR"
      <3>1. x = w
        BY <2>7 DEF SavedWord
      <3>2. ReadStr(Quoted(w)) = Store(<<w>>)
        BY DEF ReadStr, Quoted
      <3> QED
        BY <1>1, <2>1, <2>2, <2>7, <3>1, <3>2 DEF Convert, ListTypes
    <2>8. CASE type = "BINARY"
      BY <2>8 DEF Survives, ListTypes
    <2> QED
      BY <1>2, <2>3, <2>4, <2>5, <2>6, <2>7, <2>8 DEF AllTypes
  <1>3. CASE type \in ListTypes
    <2>1. v \in Seq(ItemsOf(type)) /\ Len(v) \in 1 .. ListCap /\ (type = "UINTLIST" => \A n \in DOMAIN v : v[n] # "big")
      BY <1>3, HoldsList DEF Survives, ListTypes
    <2>2. \A j \in 1 .. Len(v) : v[j] \in ItemsOf(type) /\ SavedWord(type, v[j]) = v[j] /\ IsItem(type, v[j])
      BY <1>3, <2>1 DEF SavedWord, ItemsOf, IntItems, UintItems, IsItem, ListTypes
    <2>3. SavedText(type, v) = List(v)
      <3>1. [j \in DOMAIN v |-> SavedWord(type, v[j])] = v
        BY <2>1, <2>2
      <3> QED
        BY <1>3, <3>1 DEF SavedText, List, ListTypes
    <2>4. IsGood(type, v, Len(v))
      BY <2>1, <2>2 DEF IsGood
    <2> DEFINE g == CHOOSE n \in 0 .. Len(v) : IsGood(type, v, n) /\ (n < Len(v) => ~IsGood(type, v, n + 1))
    <2>5. g = Len(v)
      <3>1. Good(type, v, g)
        <4>1. \E n : Good(type, v, n)
          BY <2>1, GoodExists
        <4> QED
          BY <4>1 DEF Good
      <3> HIDE DEF g
      <3> QED
        BY <2>1, <2>4, <3>1, GoodOfAll
    <2>6. ReadList(type, List(v)) = Store(v)
      <3>1. List(v).shape = "list" /\ List(v).words = v /\ v # <<>>
        BY <2>1 DEF List
      <3> QED
        BY <2>5, <3>1 DEF ReadList
    <2> QED
      BY <1>1, <1>3, <2>3, <2>6 DEF Convert, ListTypes
  <1> QED
    BY <1>2, <1>3

\* A binary that was saved whole does not end the process that reads it.
LEMMA SavedNeverDies ==
  ASSUME NEW type \in AllTypes, NEW v, Holds(type, v), NEW line, Intact(type, line, v), Dies \in Outcomes(type, line)
  PROVE  FALSE
  <1>1. IsText(SavedText(type, v)) /\ Dies \in Convert(type, SavedText(type, v))
    BY SavedIsText DEF Outcomes, Intact
  <1> USE DEF Dies, Store, Keep, Skip, Items, Error
  <1>2. CASE type = "BINARY"
    <2>1. PICK w \in HexWords : v = <<w>>
      BY <1>2 DEF Holds, Single
    <2>2. SavedText(type, v) = Plain(w)
      <3>1. SavedText(type, v) = Plain(SavedWord(type, w))
        BY <1>2, <2>1, SavedSingle DEF ListTypes
      <3> QED
        BY <1>2, <3>1 DEF SavedWord
    <2>3. Plain(w) # NoText /\ Plain(w).shape = "plain" /\ Plain(w).words[1] = w
      BY EmptyText, PlainShape DEF HexWords
    <2> QED
      BY <1>1, <1>2, <2>2, <2>3 DEF Convert, ReadBinary, ListTypes
  <1>3. CASE type = "BOOL"
    BY <1>1, <1>3 DEF Convert, ReadBool, ListTypes
  <1>4. CASE type = "INT"
    BY <1>1, <1>4 DEF Convert, ReadInt, ListTypes
  <1>5. CASE type = "UINT"
    <2>1. ReadUint(SavedText(type, v)).does # "die"
      BY UintFits, <1>1 DEF Fits, ReadUint
    <2> QED
      BY <1>1, <1>5, <2>1 DEF Convert, ListTypes
  <1>6. CASE type = "FLOAT"
    BY <1>1, <1>6 DEF Convert, ReadFloat, ListTypes
  <1>7. CASE type = "STR"
    BY <1>1, <1>7 DEF Convert, ReadStr, ListTypes
  <1>8. CASE type \in ListTypes
    BY <1>1, <1>8 DEF Convert, ReadList, ListTypes
  <1> QED
    BY <1>2, <1>3, <1>4, <1>5, <1>6, <1>7, <1>8 DEF AllTypes

\* Without its end a value that is no string is not stored.
LEMMA CutGivesNothing ==
  ASSUME NEW type, NEW line, Terminator(type) \notin line.ends, NEW o \in Outcomes(type, line)
  PROVE  o = Dies \/ o = Skip \/ type = "STR"
  BY Zenon DEF Outcomes

\* A line has at most two outcomes.
LEMMA OutcomesFinite ==
  ASSUME NEW type \in AllTypes, NEW line
  PROVE  IsFiniteSet(Outcomes(type, line))
  <1>1. \A x, y : IsFiniteSet({x}) /\ IsFiniteSet({x, y})
    <2>1. ASSUME NEW x PROVE IsFiniteSet({x})
      BY FS_Singleton
    <2>2. ASSUME NEW x, NEW y PROVE IsFiniteSet({x, y})
      <3>1. IsFiniteSet({x} \cup {y})
        BY <2>1, FS_AddElement
      <3> QED
        BY <3>1
    <2> QED
      BY <2>1, <2>2
  <1>2. \E x, y : Outcomes(type, line) = {x} \/ Outcomes(type, line) = {x, y}
    <2>1. CASE Terminator(type) \notin line.ends
      BY <2>1, Zenon DEF Outcomes
    <2>2. CASE Terminator(type) \in line.ends /\ type = "BINARY"
      <3>1. Outcomes(type, line) = ReadBinary(line.text)
        BY <2>2 DEF Outcomes, Convert, ListTypes
      <3>2. ReadBinary(line.text) \in {{Keep}, {Store(line.text.words), Store(<<"garbage">>)}, {Store(<<"garbage">>), Dies}}
        BY DEF ReadBinary
      <3> QED
        BY <3>1, <3>2, Zenon
    <2>3. CASE Terminator(type) \in line.ends /\ type # "BINARY"
      <3>1. Outcomes(type, line) = Convert(type, line.text)
        BY <2>3 DEF Outcomes
      <3>2. Convert(type, line.text) \in {{ReadBool(line.text)}, {ReadInt(line.text)}, {ReadUint(line.text)}, {ReadFloat(line.text)},
                                          {ReadStr(line.text)}, {ReadList(type, line.text)}}
        BY <2>3 DEF Convert, AllTypes, ListTypes
      <3> QED
        BY <3>1, <3>2, Zenon
    <2> QED
      BY <2>1, <2>2, <2>3
  <1> QED
    BY <1>1, <1>2, Zenon

----------------------------------------------------------------------------
\* The parameters are registered under different names.
Tabled ==
    /\ table \in Seq(Param) /\ Len(table) <= MaxParams
    /\ \A i, j \in 1 .. Len(table) : table[i].name = table[j].name => i = j

\* The file is a sequence of lines; a file that does not exist has none.
Lines ==
    /\ \E V : file \in Seq(V)
    /\ \A l \in 1 .. Len(file) : IsLine(file[l])
    /\ exists \in BOOLEAN /\ (~exists => file = <<>>)

\* Values of the first parameters of the table.
Held(vs) ==
    /\ \E V : vs \in Seq(V)
    /\ Len(vs) <= Len(table)
    /\ \A j \in 1 .. Len(vs) : Holds(table[j].type, vs[j])

\* The variables, and the values the last save wrote, are of their types.
ValuesFit ==
    /\ Held(val) /\ Held(saved)
    /\ changed \in Seq(BOOLEAN) /\ Len(changed) = Len(val)
    /\ Len(base) \in Nat /\ Len(base) <= Len(val)

\* The codes, places and counts of the process; a parse has not returned.
Scalars ==
    /\ err \in {"NO_ERROR", "UNKNOWN", "NO_VALUE", "INVALID_NUMBER"}
    /\ open \in 0 .. MaxOpen /\ saves \in 0 .. MaxSaves /\ crashes \in 0 .. MaxCrashes
    /\ pc \in {"idle", "save", "parse"} /\ k \in Nat
    /\ ret \in {"none", "true", "false", "not saved", "not txt", "file not found"}
    /\ pc = "parse" => ret = "none" /\ k >= 1

\* The flags.
Booleans == found \in BOOLEAN /\ torn \in BOOLEAN /\ byHand \in BOOLEAN

\* A file that was saved is, line by line, what was saved, up to where it was cut.
SavedFile ==
    /\ ~byHand =>
         /\ Len(file) <= Len(saved)
         /\ \A l \in 1 .. Len(file) :
              /\ file[l].key = table[l].name
              /\ Terminator(table[l].type) \in file[l].ends => Intact(table[l].type, file[l], saved[l])
         /\ ~torn \/ pc = "save" => \A l \in 1 .. Len(file) : file[l] = SavedLine(l, saved[l])
         /\ ~torn => Len(file) = Len(saved)
    /\ pc = "save" => ~byHand /\ torn /\ saved = val /\ Len(file) = k - 1 /\ k <= Len(val) + 1 /\ exists

\* A parse has given the variables of the lines behind it what was saved.
IsRead ==
    pc = "parse" /\ ~byHand =>
        \A j \in 1 .. Len(val) :
            /\ j < k /\ j <= Len(file)
            /\ Survives(table[j].type, saved[j])
            /\ Terminator(table[j].type) \in file[j].ends
            => val[j] = saved[j]

\* After a save that was cut off, only a line with its end marks a variable as changed.
IsChanged ==
    ~byHand /\ torn /\ pc # "save" =>
        \A j \in 1 .. Len(val) :
            /\ j <= Len(saved) /\ changed[j]
            /\ Survives(table[j].type, saved[j]) /\ table[j].type # "STR"
            => j <= Len(file) /\ Terminator(table[j].type) \in file[j].ends

\* The inductive invariant of ParamFile.
TxtInv ==
    /\ Tabled /\ Lines /\ ValuesFit /\ Scalars /\ Booleans
    /\ SavedFile /\ IsRead /\ IsChanged /\ ValuesAreOfFile

\* It holds when a process starts, whatever file was there before.
LEMMA TxtInitHolds ==
  ASSUME NEW tables, tables \subseteq Tables, NEW files, \A f \in files : f \in HandFiles \/ f = <<>>,
         InitWith(tables, files)
  PROVE  TxtInv
  <1> USE ParamAssumption
  <1>1. table \in Tables /\ (file \in HandFiles \/ file = <<>>) /\ exists \in BOOLEAN /\ (~exists => file = <<>>)
    BY Zenon DEF InitWith
  <1>2. /\ val = <<>> /\ changed = <<>> /\ err = "NO_ERROR" /\ open = 0 /\ pc = "idle" /\ k = 0 /\ ret = "none"
        /\ base = <<>> /\ saves = 0 /\ crashes = 0 /\ saved = <<>>
    BY Zenon DEF InitWith, Fresh
  <1>3. found = FALSE /\ torn = FALSE /\ byHand = TRUE
    BY Zenon DEF InitWith, Fresh
  <1>4. Tabled
    <2>1. PICK m \in 0 .. MaxParams : table \in [1 .. m -> Param]
      BY <1>1 DEF Tables, UpTo
    <2>2. table \in Seq(Param) /\ Len(table) = m
      BY <2>1, SeqDef, LenProperties
    <2> QED
      BY <1>1, <2>2 DEF Tabled, Tables, IsTable
  <1>5. Lines
    <2>2. file \in Seq(HandLines)
      <3>1. <<>> \in Seq(HandLines)
        OBVIOUS
      <3>2. ASSUME file \in HandFiles PROVE file \in Seq(HandLines)
        <4>1. PICK m \in 0 .. MaxLines : file \in [1 .. m -> HandLines]
          BY <3>2 DEF HandFiles, UpTo
        <4>2. m \in Nat
          OBVIOUS
        <4> QED
          BY <4>1, <4>2, SeqDef
      <3> QED
        BY <1>1, <3>1, <3>2, Zenon
    <2>3. ASSUME NEW line \in HandLines PROVE IsLine(line)
      <3>1. CASE line = Line("other", NoText, {"blank"})
        <4>1. IsText(NoText)
          BY DEF IsText, NoText
        <4> QED
          BY <3>1, <4>1 DEF IsLine, Line
      <3>2. ASSUME NEW text \in Texts, NEW key \in Names, NEW ends \in SUBSET ({"blank"} \cup Closing(text.shape)),
                   line = Line(key, text, ends)
            PROVE  IsLine(line)
        <4>1. IsText(text)
          <5>1. text \in AllTexts
            OBVIOUS
          <5>2. CASE \E w : text = Plain(w) \/ text = Quoted(w)
            BY <5>2, Zenon DEF IsText
          <5>3. CASE \E s \in ItemsUpTo(ArrayCap + 1) : text = List(s)
            <6>1. PICK n \in 0 .. ArrayCap + 1 : \E s \in [1 .. n -> Words] : text = List(s)
              BY <5>3 DEF ItemsUpTo
            <6>2. \A s \in [1 .. n -> Words] : s \in Seq(Words)
              BY <6>1, SeqDef
            <6> QED
              BY <6>1, <6>2, Zenon DEF IsText
          <5> QED
            BY <5>1, <5>2, <5>3 DEF AllTexts
        <4>2. line.key = key /\ line.text = text /\ line.ends = ends
          BY <3>2 DEF Line
        <4>3. ends \subseteq {"blank"} \cup Closing(text.shape)
          OBVIOUS
        <4> QED
          BY <4>1, <4>2, <4>3 DEF IsLine, Closing
      <3>3. line = Line("other", NoText, {"blank"}) \/ \E text \in Texts :
               line \in {Line(key, text, ends) : key \in Names, ends \in SUBSET ({"blank"} \cup Closing(text.shape))}
        BY DEF HandLines
      <3>4. ASSUME NEW text \in Texts,
                   line \in {Line(key, text, ends) : key \in Names, ends \in SUBSET ({"blank"} \cup Closing(text.shape))}
            PROVE  \E key \in Names, ends \in SUBSET ({"blank"} \cup Closing(text.shape)) : line = Line(key, text, ends)
        BY <3>4
      <3> QED
        BY <3>1, <3>2, <3>3, <3>4
    <2>4. \E V : file \in Seq(V)
      BY <2>2
    <2>5. \A l \in 1 .. Len(file) : IsLine(file[l])
      BY <2>2, <2>3
    <2> QED
      BY <1>1, <2>4, <2>5, Zenon DEF Lines
  <1>6. ValuesFit
    <2>1. <<>> \in Seq({}) /\ Len(<<>>) = 0 /\ Len(table) \in Nat /\ <<>> \in Seq(BOOLEAN)
      BY <1>4 DEF Tabled
    <2>2. Held(<<>>)
      BY <2>1 DEF Held
    <2> QED
      BY <1>2, <2>1, <2>2 DEF ValuesFit
  <1>7. Scalars
    BY <1>2 DEF Scalars
  <1>8. Booleans
    BY <1>3, Zenon DEF Booleans
  <1>9. pc # "parse" /\ pc # "save" /\ byHand
    <2>1. pc # "parse" /\ pc # "save"
      BY <1>2
    <2> QED
      BY <1>3, <2>1, Zenon
  <1>10. SavedFile /\ IsRead /\ IsChanged /\ ValuesAreOfFile
    BY <1>9, Zenon DEF SavedFile, IsRead, IsChanged, ValuesAreOfFile
  <1> QED
    BY <1>4, <1>5, <1>6, <1>7, <1>8, <1>10 DEF TxtInv

\* The parameters are those the program was built with.
LEMMA TableStep ==
  ASSUME [Next]_vars
  PROVE  table' = table
  BY Zenon DEF Next, vars, Register, SetVariable, Crash, SaveNothing, SaveCannotOpen, SaveOpen, SaveParam, SaveClose,
     ParseCannotOpen, ParseOpen, ParseOther, ParseParam, ParseFail, ParseDie, ParseEnd

\* Steps that write nothing, to the file or of what is known about it.
Writes == SaveOpen \/ SaveParam \/ SaveClose \/ Crash
Rests  == /\ file' = file /\ exists' = exists /\ saved' = saved /\ torn' = torn /\ byHand' = byHand
          /\ (pc' = "save") <=> (pc = "save")
          /\ pc = "save" => val' = val /\ k' = k

\* Only ParamSave and a crash touch the file or what was saved.
LEMMA RestsOrWrites ==
  ASSUME [Next]_vars
  PROVE  Rests \/ Writes
  <1> USE DEF Rests, Idle, disk, history, context
  <1>1. CASE UNCHANGED vars
    BY <1>1, Zenon DEF vars
  <1>2. CASE Register
    BY <1>2 DEF Register
  <1>3. CASE SaveNothing
    BY <1>3 DEF SaveNothing
  <1>4. CASE SaveCannotOpen
    BY <1>4 DEF SaveCannotOpen, Restart
  <1>5. CASE ParseCannotOpen
    BY <1>5 DEF ParseCannotOpen
  <1>6. CASE ParseOpen
    BY <1>6 DEF ParseOpen
  <1>7. CASE ParseOther
    BY <1>7 DEF ParseOther
  <1>8. CASE ParseEnd
    BY <1>8 DEF ParseEnd, Return
  <1>9. ASSUME NEW j, SetVariable(j) PROVE Rests
    BY <1>9 DEF SetVariable
  <1>10. ASSUME NEW j, ParseParam(j) PROVE Rests
    BY <1>10 DEF ParseParam, InLine
  <1>11. ASSUME NEW j, ParseFail(j) PROVE Rests
    BY <1>11 DEF ParseFail, Return, InLine
  <1>12. ASSUME NEW j, ParseDie(j) PROVE Rests
    BY <1>12 DEF ParseDie, Restart, InLine
  <1> QED
    BY <1>1, <1>2, <1>3, <1>4, <1>5, <1>6, <1>7, <1>8, <1>9, <1>10, <1>11, <1>12, Zenon DEF Next, Writes

\* One more element is at the end, and the others stay.
LEMMA AppendIsSeq ==
  ASSUME NEW V, NEW s \in Seq(V), NEW x
  PROVE  /\ \E W : Append(s, x) \in Seq(W)
         /\ Len(Append(s, x)) = Len(s) + 1 /\ Append(s, x)[Len(s) + 1] = x
         /\ \A i \in 1 .. Len(s) : Append(s, x)[i] = s[i]
  <1> DEFINE W == V \cup {x}
  <1>1. s \in Seq(W) /\ x \in W
    BY SeqDef
  <1> QED
    BY <1>1, AppendProperties

\* The first n elements of a sequence.
LEMMA CutIsSeq ==
  ASSUME NEW V, NEW s \in Seq(V), NEW n \in 0 .. Len(s)
  PROVE  /\ SubSeq(s, 1, n) \in Seq(V)
         /\ Len(SubSeq(s, 1, n)) = n
         /\ \A i \in 1 .. n : SubSeq(s, 1, n)[i] = s[i]
  OBVIOUS

\* What a crash leaves of the file that is being written.
LEMMA CrashLeaves ==
  ASSUME TxtInv, Crash
  PROVE  /\ pc # "save" => file' = file
         /\ \E V : file' \in Seq(V)
         /\ Len(file') <= Len(file)
         /\ \A l \in 1 .. Len(file') : file'[l] = file[l] \/ (pc = "save" /\ file'[l] \in Remains(file[l]))
  <1>1. PICK V : file \in Seq(V)
    BY DEF TxtInv, Lines
  <1>2. CASE pc # "save"
    <2>1. file' = file
      BY <1>2, Zenon DEF Crash
    <2> QED
      BY <1>1, <1>2, <2>1
  <1>3. CASE pc = "save"
    <2>1. PICK n \in 0 .. Len(file) :
              file' \in {SubSeq(file, 1, n)} \cup
                        {Append(SubSeq(file, 1, n), part) : part \in IF n < Len(file) THEN Remains(file[n + 1]) ELSE {}}
      BY <1>3, Zenon DEF Crash
    <2> DEFINE s == SubSeq(file, 1, n)
    <2>2. s \in Seq(V) /\ Len(s) = n /\ \A i \in 1 .. n : s[i] = file[i]
      BY <1>1, CutIsSeq
    <2>3. Len(file) \in Nat
      BY <1>1
    <2> HIDE DEF s
    <2>4. CASE file' = s
      BY <1>3, <2>2, <2>3, <2>4
    <2>5. ASSUME n < Len(file), NEW part \in Remains(file[n + 1]), file' = Append(s, part)
          PROVE  /\ \E W : file' \in Seq(W)
                 /\ Len(file') <= Len(file)
                 /\ \A l \in 1 .. Len(file') : file'[l] = file[l] \/ file'[l] \in Remains(file[l])
      <3>1. /\ file' \in Seq(V \cup {part}) /\ Len(file') = n + 1 /\ file'[n + 1] = part
            /\ \A i \in 1 .. n : file'[i] = s[i]
        BY <2>2, <2>5, AppendIsSeq
      <3>2. n \in Nat /\ Len(file') <= Len(file)
        BY <2>3, <2>5, <3>1
      <3>3. ASSUME NEW l \in 1 .. Len(file') PROVE file'[l] = file[l] \/ file'[l] \in Remains(file[l])
        <4>1. l \in 1 .. n \/ l = n + 1
          BY <3>1, <3>2
        <4>2. CASE l \in 1 .. n
          BY <2>2, <3>1, <4>2
        <4>3. CASE l = n + 1
          BY <2>5, <3>1, <4>3
        <4> QED
          BY <4>1, <4>2, <4>3
      <3>4. \E W : file' \in Seq(W)
        BY <3>1, Zenon
      <3> QED
        BY <3>2, <3>3, <3>4
    <2>6. file' = s \/ (n < Len(file) /\ \E part \in Remains(file[n + 1]) : file' = Append(s, part))
      BY <2>1 DEF s
    <2> QED
      BY <1>3, <2>4, <2>5, <2>6
  <1> QED
    BY <1>2, <1>3

\* Every variable of a registered parameter has one of the types.
LEMMA TypesFit ==
  ASSUME Tabled
  PROVE  /\ Len(table) \in Nat
         /\ \A i \in 1 .. Len(table) : table[i].type \in AllTypes /\ table[i].name \in Names
  BY ParamAssumption DEF Tabled, Param

\* How a step changes the variables and their flags.
Gone(vs, cs) == vs = <<>> /\ cs = <<>>
\* A parameter is registered: one more variable, with its default.
Grown == /\ Count < Len(table) /\ val' = Append(val, Default(table[Count + 1].type))
         /\ changed' = Append(changed, FALSE)
Given(j) == /\ j \in 1 .. Count
            /\ \E v \in Values(table[j].type) : val' = [val EXCEPT ![j] = v]
            /\ changed' = changed

\* What a line stores is a value of the type of the variable.
LEMMA StoredFits ==
  ASSUME NEW type \in AllTypes, NEW line, IsLine(line), NEW o \in Outcomes(type, line), o.does \in {"store", "items"}
  PROVE  Holds(type, o.value)
  <1>1. Fits(type, o)
    BY OutcomesFit
  <1>2. PICK v : Holds(type, v) /\ (o = Store(v) \/ o = Items(v))
    BY <1>1 DEF Fits, Keep, Skip, Dies, Error
  <1>3. o.value = v
    BY <1>2 DEF Store, Items
  <1> QED
    BY <1>2, <1>3, Zenon

\* A line that names a parameter is read as the value of that parameter.
Takes(j) ==
    /\ j \in 1 .. Count /\ InLine(j) /\ k' = k + 1 /\ pc' = pc
    /\ \E o \in Outcomes(table[j].type, file[k]) :
          /\ o.does \in {"store", "keep", "items", "skip"}
          /\ \/ o.does \in {"store", "items"} /\ val' = [val EXCEPT ![j] = o.value]
             \/ o.does \notin {"store", "items"} /\ val' = val
          /\ \/ o.does \in {"store", "keep"} /\ changed' = [changed EXCEPT ![j] = TRUE]
             \/ changed' = changed

\* ParseParam gives the variable one of the outcomes of the line.
LEMMA ParamTakes ==
  ASSUME NEW j \in 1 .. MaxParams, ParseParam(j)
  PROVE  Takes(j)
  <1> USE ParamAssumption
  <1>1. j \in 1 .. Count
    <2>1. j <= Count
      BY Zenon DEF ParseParam, InLine
    <2> QED
      BY <2>1
  <1>2. InLine(j) /\ k' = k + 1 /\ pc' = pc
    BY Zenon DEF ParseParam
  <1>3. PICK o \in Outcomes(table[j].type, file[k]) :
          /\ o.does \in {"store", "keep", "items", "skip"}
          /\ val' = IF o.does \in {"store", "items"} THEN [val EXCEPT ![j] = o.value] ELSE val
          /\ changed' = IF o.does \in {"store", "keep"} THEN [changed EXCEPT ![j] = TRUE] ELSE changed
    BY Zenon DEF ParseParam
  <1> QED
    BY <1>1, <1>2, <1>3, Zenon DEF Takes

\* What a step can do to the variables and to the values a parse started from.
LEMMA ValuesMove ==
  ASSUME [Next]_vars
  PROVE  \/ val' = val /\ changed' = changed /\ (base' = base \/ base' = val \/ base' = <<>>)
         \/ Gone(val', changed') /\ base' = <<>>
         \/ Grown /\ base' = base /\ pc' = pc /\ pc = "idle"
         \/ \E j : Given(j) /\ base' = base /\ pc' = pc /\ pc = "idle"
         \/ \E j \in 1 .. MaxParams : Takes(j) /\ base' = base
  <1> USE DEF Idle, disk, history, context, Gone
  <1>1. CASE UNCHANGED vars
    BY <1>1, Zenon DEF vars
  <1>2. CASE Register
    BY <1>2 DEF Register, Grown
  <1>3. CASE SaveNothing
    BY <1>3, Zenon DEF SaveNothing
  <1>4. CASE SaveCannotOpen
    BY <1>4, Zenon DEF SaveCannotOpen, Restart
  <1>5. CASE ParseCannotOpen
    BY <1>5, Zenon DEF ParseCannotOpen
  <1>6. CASE ParseOpen
    BY <1>6, Zenon DEF ParseOpen
  <1>7. CASE ParseOther
    BY <1>7, Zenon DEF ParseOther
  <1>8. CASE ParseEnd
    BY <1>8, Zenon DEF ParseEnd, Return
  <1>9. ASSUME NEW j \in 1 .. MaxParams, SetVariable(j) PROVE Given(j) /\ base' = base /\ pc' = pc /\ pc = "idle"
    <2>1. /\ j <= Count /\ base' = base /\ pc' = pc /\ pc = "idle" /\ changed' = changed
          /\ \E v \in Values(table[j].type) : val' = [val EXCEPT ![j] = v]
      BY <1>9, Zenon DEF SetVariable
    <2>2. j \in 1 .. Count
      BY <2>1, ParamAssumption
    <2> QED
      BY <2>1, <2>2, Zenon DEF Given
  <1>10. ASSUME NEW j \in 1 .. MaxParams, ParseParam(j) PROVE Takes(j) /\ base' = base
    <2>1. base' = base
      BY <1>10, Zenon DEF ParseParam
    <2> QED
      BY <1>10, <2>1, ParamTakes
  <1>11. ASSUME NEW j, ParseFail(j) PROVE val' = val /\ changed' = changed /\ base' = <<>>
    BY <1>11, Zenon DEF ParseFail, Return
  <1>12. ASSUME NEW j, ParseDie(j) PROVE Gone(val', changed') /\ base' = <<>>
    BY <1>12, Zenon DEF ParseDie, Restart
  <1>13. CASE Crash
    BY <1>13, Zenon DEF Crash, Restart
  <1>14. CASE SaveOpen
    BY <1>14, Zenon DEF SaveOpen
  <1>15. CASE SaveParam
    BY <1>15, Zenon DEF SaveParam
  <1>16. CASE SaveClose
    BY <1>16, Zenon DEF SaveClose
  <1> QED
    BY <1>1, <1>2, <1>3, <1>4, <1>5, <1>6, <1>7, <1>8, <1>9, <1>10, <1>11, <1>12, <1>13, <1>14, <1>15, <1>16, Zenon DEF Next

\* The table is never written.
LEMMA TabledStep ==
  ASSUME TxtInv, [Next]_vars
  PROVE  Tabled'
  <1>1. table' = table /\ Tabled
    BY TableStep DEF TxtInv
  <1> QED
    BY <1>1 DEF Tabled

\* The values and flags that are held stay well formed.
LEMMA ValuesStep ==
  ASSUME TxtInv, [Next]_vars
  PROVE  ValuesFit'
  <1>1. table' = table /\ Tabled /\ ValuesFit /\ Len(table) \in Nat
        /\ \A i \in 1 .. Len(table) : table[i].type \in AllTypes /\ table[i].name \in Names
    BY TableStep, TypesFit DEF TxtInv
  <1>2. PICK V : val \in Seq(V)
    BY <1>1 DEF ValuesFit, Held
  <1>3. /\ Len(val) \in Nat /\ Len(val) <= Len(table) /\ \A j \in 1 .. Len(val) : Holds(table[j].type, val[j])
        /\ changed \in Seq(BOOLEAN) /\ Len(changed) = Len(val) /\ Len(base) \in Nat /\ Len(base) <= Len(val)
    BY <1>1, <1>2 DEF ValuesFit, Held
  <1>4. ASSUME NEW j \in 1 .. Count, NEW v, Holds(table[j].type, v), val' = [val EXCEPT ![j] = v]
        PROVE  (\E W : val' \in Seq(W)) /\ Len(val') = Len(val) /\ \A i \in 1 .. Len(val') : Holds(table[i].type, val'[i])
    <2> DEFINE W == V \cup {v}
    <2>1. val \in Seq(W) /\ v \in W
      BY <1>2, SeqDef
    <2>2. val' \in Seq(W) /\ Len(val') = Len(val)
      <3> HIDE DEF W
      <3> QED
        BY <1>4, <2>1, ExceptSeq DEF Count
    <2> QED
      BY <1>2, <1>3, <1>4, <2>2
  <1> DEFINE Ok == /\ \E W : val' \in Seq(W)
                   /\ Len(val') <= Len(table)
                   /\ \A j \in 1 .. Len(val') : Holds(table[j].type, val'[j])
                   /\ changed' \in Seq(BOOLEAN) /\ Len(changed') = Len(val')
                   /\ Len(base') \in Nat /\ Len(base') <= Len(val')
  <1>5. Ok
    <2>1. CASE val' = val /\ changed' = changed /\ (base' = base \/ base' = val \/ base' = <<>>)
      BY <1>2, <1>3, <2>1
    <2>2. CASE Gone(val', changed') /\ base' = <<>>
      <3>1. <<>> \in Seq({}) /\ Len(<<>>) = 0 /\ <<>> \in Seq(BOOLEAN)
        OBVIOUS
      <3>2. val' = <<>> /\ changed' = <<>> /\ base' = <<>>
        BY <2>2 DEF Gone
      <3> HIDE DEF Gone
      <3> QED
        BY <1>1, <3>1, <3>2
    <2>3. CASE Grown /\ base' = base
      <3> DEFINE d == Default(table[Count + 1].type)
      <3>1. val' = Append(val, d) /\ changed' = Append(changed, FALSE) /\ Len(val) < Len(table)
        BY <2>3, Zenon DEF Grown, Count
      <3>2. Holds(table[Len(val) + 1].type, d)
        BY <1>1, <1>3, <3>1, DefaultHolds DEF Count
      <3> HIDE DEF d
      <3>3. (\E W : val' \in Seq(W)) /\ Len(val') = Len(val) + 1 /\ val'[Len(val) + 1] = d /\ \A i \in 1 .. Len(val) : val'[i] = val[i]
        <4>1. /\ \E W : Append(val, d) \in Seq(W)
              /\ Len(Append(val, d)) = Len(val) + 1 /\ Append(val, d)[Len(val) + 1] = d
              /\ \A i \in 1 .. Len(val) : Append(val, d)[i] = val[i]
          BY <1>2, AppendIsSeq, Zenon
        <4> QED
          BY <3>1, <4>1, Zenon
      <3>4. changed' \in Seq(BOOLEAN) /\ Len(changed') = Len(changed) + 1
        <4>1. FALSE \in BOOLEAN
          OBVIOUS
        <4> QED
          BY <1>3, <3>1, <4>1, AppendProperties
      <3>5. \A i \in 1 .. Len(val') : Holds(table[i].type, val'[i])
        BY <1>3, <3>2, <3>3
      <3>6. Len(val') <= Len(table) /\ Len(base') \in Nat /\ Len(base') <= Len(val')
        BY <1>1, <1>3, <2>3, <3>1, <3>3
      <3> QED
        BY <1>3, <3>3, <3>4, <3>5, <3>6, Zenon
    <2>4. ASSUME NEW j, Given(j), base' = base PROVE Ok
      <3>1. PICK v \in Values(table[j].type) : val' = [val EXCEPT ![j] = v]
        BY <2>4, Zenon DEF Given
      <3>2. j \in 1 .. Count /\ changed' = changed
        BY <2>4, Zenon DEF Given
      <3>3. Holds(table[j].type, v)
        BY <1>1, <1>3, <3>2, ValuesHold DEF Count
      <3>4. (\E W : val' \in Seq(W)) /\ Len(val') = Len(val) /\ \A i \in 1 .. Len(val') : Holds(table[i].type, val'[i])
        BY <1>4, <3>1, <3>2, <3>3
      <3> QED
        BY <1>3, <2>4, <3>2, <3>4
    <2>5. ASSUME NEW j \in 1 .. MaxParams, Takes(j), base' = base PROVE Ok
      <3>1. PICK o \in Outcomes(table[j].type, file[k]) :
          /\ o.does \in {"store", "keep", "items", "skip"}
          /\ \/ o.does \in {"store", "items"} /\ val' = [val EXCEPT ![j] = o.value]
             \/ o.does \notin {"store", "items"} /\ val' = val
          /\ \/ o.does \in {"store", "keep"} /\ changed' = [changed EXCEPT ![j] = TRUE]
             \/ changed' = changed
        BY <2>5, Zenon DEF Takes
      <3>2. j \in 1 .. Count /\ k <= Len(file) /\ pc = "parse"
        BY <2>5, Zenon DEF Takes, InLine
      <3>3. k \in 1 .. Len(file) /\ IsLine(file[k])
        <4>1. k \in Nat /\ k >= 1 /\ (\E X : file \in Seq(X)) /\ \A l \in 1 .. Len(file) : IsLine(file[l])
          BY <3>2 DEF TxtInv, Scalars, Lines
        <4> QED
          BY <3>2, <4>1
      <3>4. changed' \in Seq(BOOLEAN) /\ Len(changed') = Len(changed)
        <4>1. CASE changed' = [changed EXCEPT ![j] = TRUE]
          <5>1. TRUE \in BOOLEAN /\ j \in 1 .. Len(changed)
            BY <1>3, <3>2 DEF Count
          <5> QED
            BY <1>3, <4>1, <5>1, ExceptSeq
        <4>2. CASE changed' = changed
          BY <1>3, <4>2
        <4> QED
          BY <3>1, <4>1, <4>2
      <3>5. (\E W : val' \in Seq(W)) /\ Len(val') = Len(val) /\ \A i \in 1 .. Len(val') : Holds(table[i].type, val'[i])
        <4>1. CASE o.does \in {"store", "items"} /\ val' = [val EXCEPT ![j] = o.value]
          <5>1. table[j].type \in AllTypes
            BY <1>1, <1>3, <3>2 DEF Count
          <5>2. Holds(table[j].type, o.value)
            BY <3>3, <4>1, <5>1, StoredFits
          <5> QED
            BY <1>4, <3>2, <4>1, <5>2
        <4>2. CASE val' = val
          BY <1>2, <1>3, <4>2
        <4> QED
          BY <3>1, <4>1, <4>2
      <3> QED
        BY <1>3, <2>5, <3>4, <3>5
    <2> QED
      BY <2>1, <2>2, <2>3, <2>4, <2>5, ValuesMove, Zenon
  <1>6. Held(saved)'
    <2>1. saved' = saved \/ (saved' = val)
      <3>1. CASE Rests
        BY <3>1, Zenon DEF Rests
      <3>2. CASE Writes
        BY <3>2, Zenon DEF Writes, SaveOpen, SaveParam, SaveClose, Crash, history
      <3> QED
        BY <3>1, <3>2, RestsOrWrites
    <2>2. Held(saved) /\ Held(val)
      BY <1>1 DEF ValuesFit
    <2> QED
      BY <1>1, <2>1, <2>2, Zenon DEF Held
  <1>7. Held(val)'
    BY <1>1, <1>5, Zenon DEF Held
  <1> QED
    BY <1>5, <1>6, <1>7, Zenon DEF ValuesFit

\* The file stays a sequence of lines.
LEMMA LinesStep ==
  ASSUME TxtInv, [Next]_vars
  PROVE  Lines'
  <1>1. Lines
    BY DEF TxtInv
  <1>2. PICK V : file \in Seq(V)
    BY <1>1 DEF Lines
  <1>3. \A l \in 1 .. Len(file) : IsLine(file[l])
    BY <1>1 DEF Lines
  <1>4. exists \in BOOLEAN /\ (~exists => file = <<>>)
    BY <1>1, Zenon DEF Lines
  <1>5. CASE Rests
    <2>1. file' = file /\ exists' = exists
      BY <1>5, Zenon DEF Rests
    <2> QED
      BY <1>1, <2>1, Zenon DEF Lines
  <1>6. CASE SaveOpen
    <2>1. file' = <<>> /\ exists' = TRUE
      BY <1>6, Zenon DEF SaveOpen
    <2>2. <<>> \in Seq({}) /\ Len(<<>>) = 0 /\ \A l \in 1 .. 0 : IsLine(<<>>[l])
      OBVIOUS
    <2>3. (\E W : file' \in Seq(W)) /\ \A l \in 1 .. Len(file') : IsLine(file'[l])
      BY <2>1, <2>2
    <2> QED
      BY <2>1, <2>3, Zenon DEF Lines
  <1>7. CASE SaveParam
    <2>1. file' = Append(file, SavedLine(k, val[k])) /\ exists' = exists /\ pc = "save" /\ k <= Count
      BY <1>7, Zenon DEF SaveParam
    <2>2. exists /\ k = Len(file) + 1
      <3>1. exists /\ Len(file) = k - 1
        BY <2>1, Zenon DEF TxtInv, SavedFile
      <3>2. k \in Nat
        BY Zenon DEF TxtInv, Scalars
      <3>3. k = Len(file) + 1
        BY <1>2, <3>1, <3>2
      <3> QED
        BY <3>1, <3>3, Zenon
    <2>3. IsLine(SavedLine(k, val[k]))
      <3>1. k \in 1 .. Len(val) /\ Len(val) <= Len(table) /\ Holds(table[k].type, val[k])
        BY <1>2, <2>1, <2>2 DEF TxtInv, ValuesFit, Held, Count
      <3>2. table[k].type \in AllTypes /\ table[k].name \in Names
        BY <3>1, TypesFit DEF TxtInv
      <3> QED
        BY <3>1, <3>2, SavedIsLine DEF SavedLine
    <2> DEFINE x == SavedLine(k, val[k])
    <2>4. (\E W : file' \in Seq(W)) /\ \A l \in 1 .. Len(file') : IsLine(file'[l])
      <3> HIDE DEF x
      <3> QED
        <4>1. /\ \E W : Append(file, x) \in Seq(W)
              /\ Len(Append(file, x)) = Len(file) + 1 /\ Append(file, x)[Len(file) + 1] = x
              /\ \A i \in 1 .. Len(file) : Append(file, x)[i] = file[i]
          BY <1>2, AppendIsSeq, Zenon
        <4>2. file' = Append(file, x) /\ IsLine(x) /\ Len(file) \in Nat
          BY <1>2, <2>1, <2>3 DEF x
        <4>3. ASSUME NEW l \in 1 .. Len(file') PROVE IsLine(file'[l])
          <5>1. l \in 1 .. Len(file) \/ l = Len(file) + 1
            BY <4>1, <4>2
          <5> QED
            BY <1>3, <4>1, <4>2, <5>1
        <4> QED
          BY <4>1, <4>2, <4>3
    <2> QED
      BY <1>4, <2>1, <2>2, <2>4, Zenon DEF Lines
  <1>8. CASE SaveClose
    <2>1. file' = file /\ exists' = exists
      BY <1>8, Zenon DEF SaveClose, disk
    <2> QED
      BY <1>1, <2>1, Zenon DEF Lines
  <1>9. CASE Crash
    <2>1. /\ \E W : file' \in Seq(W)
          /\ Len(file') <= Len(file)
          /\ \A l \in 1 .. Len(file') : file'[l] = file[l] \/ (pc = "save" /\ file'[l] \in Remains(file[l]))
          /\ pc # "save" => file' = file
      BY <1>9, CrashLeaves
    <2>2. exists' = exists
      BY <1>9, Zenon DEF Crash
    <2>3. exists \/ pc # "save"
      BY Zenon DEF TxtInv, SavedFile
    <2>4. ASSUME NEW l \in 1 .. Len(file') PROVE IsLine(file'[l])
      <3>1. l \in 1 .. Len(file)
        BY <1>2, <2>1
      <3>2. CASE file'[l] = file[l]
        BY <1>3, <3>1, <3>2
      <3>3. CASE pc = "save" /\ file'[l] \in Remains(file[l])
        <4>1. /\ Len(file) <= Len(saved) /\ file[l] = SavedLine(l, saved[l])
          BY <3>1, <3>3 DEF TxtInv, SavedFile
        <4>2. IsLine(Line(table[l].name, SavedText(table[l].type, saved[l]), SavedEnds(SavedText(table[l].type, saved[l]))))
          BY <1>3, <3>1, <4>1 DEF SavedLine
        <4> QED
          BY <3>3, <4>1, <4>2, RemainsIsLine DEF SavedLine
      <3> QED
        BY <2>1, <3>2, <3>3
    <2> QED
      BY <1>4, <2>1, <2>2, <2>3, <2>4, Zenon DEF Lines
  <1> QED
    BY <1>5, <1>6, <1>7, <1>8, <1>9, RestsOrWrites, Zenon DEF Writes

\* What a line that cannot be read leaves in param_error.
LEMMA ErrorCode ==
  ASSUME TxtInv, NEW j \in 1 .. MaxParams, ParseFail(j)
  PROVE  err' \in Codes
  <1>1. PICK o \in Outcomes(table[j].type, file[k]) : o.does = "fail" /\ err' = o.value[1]
    BY Zenon DEF ParseFail
  <1>2. j <= Count /\ k <= Len(file) /\ pc = "parse"
    BY Zenon DEF ParseFail, InLine
  <1>3. k \in 1 .. Len(file) /\ IsLine(file[k])
    <2>1. k \in Nat /\ k >= 1 /\ (\E X : file \in Seq(X)) /\ \A l \in 1 .. Len(file) : IsLine(file[l])
      BY <1>2 DEF TxtInv, Scalars, Lines
    <2> QED
      BY <1>2, <2>1
  <1>4. table[j].type \in AllTypes
    <2>1. Len(val) \in Nat /\ Len(val) <= Len(table)
      BY DEF TxtInv, ValuesFit, Held
    <2> QED
      BY <1>2, <2>1, TypesFit, ParamAssumption DEF TxtInv, Count
  <1>5. Fits(table[j].type, o)
    BY <1>3, <1>4, OutcomesFit
  <1>6. PICK code \in Codes : o = Error(code)
    BY <1>1, <1>5 DEF Fits, Keep, Skip, Dies, Store, Items
  <1> QED
    BY <1>1, <1>6 DEF Error

\* Codes, places and counts stay in their ranges.
LEMMA ScalarsStep ==
  ASSUME TxtInv, [Next]_vars
  PROVE  Scalars'
  <1> USE DEF Idle, disk, history, context, Scalars
  <1>0. Scalars /\ MaxOpen \in Nat /\ MaxSaves \in Nat /\ MaxCrashes \in Nat
    BY ParamAssumption DEF TxtInv
  <1> DEFINE Err == {"NO_ERROR", "UNKNOWN", "NO_VALUE", "INVALID_NUMBER"}
             Ret == {"none", "true", "false", "not saved", "not txt", "file not found"}
  <1>a. /\ 0 \in Nat /\ 1 \in Nat /\ 0 \in 0 .. MaxOpen
        /\ \A m \in {MaxOpen, MaxSaves, MaxCrashes} : \A i : i \in 0 .. m /\ i < m => i + 1 \in 0 .. m
        /\ k + 1 \in Nat /\ (k >= 1 => k + 1 >= 1) /\ 1 >= 1
    <2>1. ASSUME NEW m \in Nat, NEW i \in 0 .. m, i < m PROVE i + 1 \in 0 .. m
      BY <2>1
    <2>2. k \in Nat /\ MaxOpen \in Nat
      BY <1>0, Zenon
    <2>3. k + 1 \in Nat /\ (k >= 1 => k + 1 >= 1)
      BY <2>2
    <2>4. 0 \in Nat /\ 1 \in Nat /\ 0 \in 0 .. MaxOpen /\ 1 >= 1
      BY <2>2
    <2> QED
      BY <1>0, <2>1, <2>3, <2>4, Zenon
  <1>b. ASSUME err' \in Err, ret' \in Ret, open' \in 0 .. MaxOpen, saves' \in 0 .. MaxSaves, crashes' \in 0 .. MaxCrashes,
               pc' \in {"idle", "save", "parse"}, k' \in Nat, pc' = "parse" => ret' = "none" /\ k' >= 1
        PROVE  Scalars'
    BY <1>b, Zenon
  <1>c. /\ err \in Err /\ ret \in Ret /\ open \in 0 .. MaxOpen /\ saves \in 0 .. MaxSaves /\ crashes \in 0 .. MaxCrashes
        /\ pc \in {"idle", "save", "parse"} /\ k \in Nat /\ (pc = "parse" => ret = "none" /\ k >= 1)
    BY <1>0, Zenon
  <1> HIDE DEF Scalars
  <1>1. CASE UNCHANGED vars
    BY <1>a, <1>b, <1>c, <1>1 DEF vars
  <1>2. CASE Register
    BY <1>a, <1>b, <1>c, <1>2 DEF Register
  <1>3. CASE SaveNothing
    BY <1>a, <1>b, <1>c, <1>3 DEF SaveNothing
  <1>4. CASE SaveCannotOpen
    BY <1>a, <1>b, <1>c, <1>4 DEF SaveCannotOpen, Restart
  <1>5. CASE ParseCannotOpen
    <2>1. /\ ret' \in {"not txt", "file not found"} /\ pc = "idle" /\ pc' = pc /\ k' = k /\ err' = err /\ open' = open
          /\ saves' = saves /\ crashes' = crashes
      BY <1>5, Zenon DEF ParseCannotOpen
    <2> QED
      BY <1>a, <1>b, <1>c, <2>1
  <1>6. CASE ParseOpen
    BY <1>a, <1>b, <1>c, <1>6 DEF ParseOpen
  <1>7. CASE ParseOther
    BY <1>a, <1>b, <1>c, <1>7 DEF ParseOther
  <1>8. CASE ParseEnd
    <2>1. /\ err' \in {err, "UNKNOWN", "NO_VALUE"} /\ ret' \in {"true", "false"} /\ pc' = "idle" /\ k' = 0
          /\ open' = open /\ saves' = saves /\ crashes' = crashes
      BY <1>8, Zenon DEF ParseEnd, Return
    <2> QED
      BY <1>a, <1>b, <1>c, <2>1
  <1>9. ASSUME NEW j, SetVariable(j) PROVE Scalars'
    BY <1>a, <1>b, <1>c, <1>9 DEF SetVariable
  <1>10. ASSUME NEW j, ParseParam(j) PROVE Scalars'
    <2>1. pc' = pc /\ k' = k + 1 /\ err' = err /\ open' = open /\ ret' = ret /\ saves' = saves /\ crashes' = crashes
      BY <1>10, Zenon DEF ParseParam
    <2> QED
      BY <1>a, <1>b, <1>c, <2>1
  <1>11. ASSUME NEW j \in 1 .. MaxParams, ParseFail(j) PROVE Scalars'
    <2>1. pc' = "idle" /\ k' = 0 /\ open' = open /\ ret' = "false" /\ saves' = saves /\ crashes' = crashes
      BY <1>11, Zenon DEF ParseFail, Return
    <2>2. err' \in Codes
      BY <1>11, ErrorCode
    <2> QED
      BY <1>a, <1>b, <1>c, <2>1, <2>2 DEF Codes
  <1>12. ASSUME NEW j, ParseDie(j) PROVE Scalars'
    BY <1>a, <1>b, <1>c, <1>12 DEF ParseDie, Restart
  <1>13. CASE Crash
    <2>1. pc' = "idle" /\ k' = 0 /\ open' = 0 /\ ret' = "none" /\ err' = "NO_ERROR" /\ saves' = saves
          /\ crashes' = crashes + 1 /\ crashes < MaxCrashes
      BY <1>13, Zenon DEF Crash, Restart
    <2> QED
      BY <1>a, <1>b, <1>c, <2>1
  <1>14. CASE SaveOpen
    BY <1>a, <1>b, <1>c, <1>14 DEF SaveOpen
  <1>15. CASE SaveParam
    <2>1. pc = "save" /\ pc' = pc /\ k' = k + 1 /\ err' = err /\ open' = open /\ ret' = ret /\ saves' = saves /\ crashes' = crashes
      BY <1>15, Zenon DEF SaveParam, context
    <2> QED
      BY <1>a, <1>b, <1>c, <2>1
  <1>16. CASE SaveClose
    BY <1>a, <1>b, <1>c, <1>16 DEF SaveClose
  <1> QED
    BY <1>1, <1>2, <1>3, <1>4, <1>5, <1>6, <1>7, <1>8, <1>9, <1>10, <1>11, <1>12, <1>13, <1>14, <1>15, <1>16, Zenon DEF Next

\* The flags stay flags.
LEMMA BooleansStep ==
  ASSUME TxtInv, [Next]_vars
  PROVE  Booleans'
  <1>1. found \in BOOLEAN /\ torn \in BOOLEAN /\ byHand \in BOOLEAN
    BY Zenon DEF TxtInv, Booleans
  <1>2. found' = found \/ found' = TRUE \/ found' = FALSE
    BY Zenon DEF Next, vars, Register, SetVariable, Crash, SaveNothing, SaveCannotOpen, SaveOpen, SaveParam, SaveClose,
       ParseCannotOpen, ParseOpen, ParseOther, ParseParam, ParseFail, ParseDie, ParseEnd, Return, Restart
  <1>3. /\ torn' = torn \/ torn' = TRUE \/ torn' = FALSE
        /\ byHand' = byHand \/ byHand' = FALSE
    BY RestsOrWrites, Zenon DEF Rests, Writes, SaveOpen, SaveParam, SaveClose, Crash, history
  <1> QED
    BY <1>1, <1>2, <1>3, Zenon DEF Booleans

\* The file that was saved is the lines of what was saved, up to where a crash cut it off.
LEMMA SavedFileStep ==
  ASSUME TxtInv, [Next]_vars
  PROVE  SavedFile'
  <1>1. table' = table /\ Tabled /\ SavedFile
    BY TableStep DEF TxtInv
  <1>2. PICK V : file \in Seq(V)
    BY DEF TxtInv, Lines
  <1>3. Len(val) \in Nat /\ k \in Nat /\ Len(saved) \in Nat /\ Len(file) \in Nat
    <2>1. (\E W : val \in Seq(W)) /\ (\E W : saved \in Seq(W)) /\ k \in Nat
      BY Zenon DEF TxtInv, ValuesFit, Held, Scalars
    <2> QED
      BY <1>2, <2>1
  <1>4. CASE Rests
    BY <1>1, <1>4, Zenon DEF Rests, SavedFile, SavedLine
  <1>5. CASE SaveOpen
    <2>1. /\ file' = <<>> /\ exists' = TRUE /\ pc' = "save" /\ k' = 1 /\ saved' = val /\ torn' = TRUE /\ byHand' = FALSE /\ val' = val
      BY <1>5, Zenon DEF SaveOpen, context
    <2>2. Len(file') = k' - 1 /\ k' <= Len(val') + 1 /\ saved' = val' /\ Len(file') <= Len(saved')
      BY <1>3, <2>1
    <2>3. \A l \in 1 .. Len(file') : FALSE
      BY <2>1
    <2> QED
      BY <2>1, <2>2, <2>3, Zenon DEF SavedFile
  <1>6. CASE SaveParam
    <2> DEFINE x == SavedLine(k, val[k])
    <2>1. /\ file' = Append(file, x) /\ exists' = exists /\ pc = "save" /\ pc' = "save" /\ k <= Len(val) /\ k' = k + 1
          /\ saved' = saved /\ torn' = torn /\ byHand' = byHand /\ val' = val
      BY <1>6, Zenon DEF SaveParam, context, history, Count
    <2>2. /\ ~byHand /\ torn /\ exists
      BY <1>1, <2>1, Zenon DEF SavedFile
    <2>3. saved = val /\ Len(file) = k - 1 /\ \A l \in 1 .. Len(file) : file[l] = SavedLine(l, saved[l])
      BY <1>1, <2>1, <2>2, Zenon DEF SavedFile
    <2>4. /\ Len(Append(file, x)) = Len(file) + 1 /\ Append(file, x)[Len(file) + 1] = x
          /\ \A i \in 1 .. Len(file) : Append(file, x)[i] = file[i]
      <3> HIDE DEF x
      <3>1. /\ \E W : Append(file, x) \in Seq(W)
            /\ Len(Append(file, x)) = Len(file) + 1 /\ Append(file, x)[Len(file) + 1] = x
            /\ \A i \in 1 .. Len(file) : Append(file, x)[i] = file[i]
        BY <1>2, AppendIsSeq, Zenon
      <3> QED
        BY <3>1, Zenon
    <2>5. Len(file') = k' - 1 /\ k' <= Len(val') + 1 /\ saved' = val' /\ Len(file') <= Len(saved')
      BY <1>3, <2>1, <2>3, <2>4
    <2>6. ASSUME NEW l \in 1 .. Len(file') PROVE file'[l] = SavedLine(l, saved[l]) /\ l \in 1 .. Len(val)
      <3>1. l \in 1 .. Len(file) \/ l = Len(file) + 1
        BY <1>3, <2>1, <2>4
      <3>2. k = Len(file) + 1 /\ l \in 1 .. Len(val)
        BY <1>3, <2>3, <3>1, <2>1
      <3> HIDE DEF x
      <3>3. CASE l \in 1 .. Len(file)
        BY <2>1, <2>3, <2>4, <3>2, <3>3
      <3>4. CASE l = Len(file) + 1
        <4>1. file'[l] = x /\ x = SavedLine(k, val[k])
          BY <2>1, <2>4, <3>4 DEF x
        <4> QED
          BY <2>3, <3>2, <3>4, <4>1
      <3> QED
        BY <3>1, <3>3, <3>4
    <2>7. ASSUME NEW l \in 1 .. Len(file')
          PROVE  /\ file'[l] = SavedLine(l, saved[l])
                 /\ file'[l].key = table[l].name
                 /\ Terminator(table[l].type) \in file'[l].ends => Intact(table[l].type, file'[l], saved[l])
      BY <2>6 DEF SavedLine, Line, Intact
    <2> HIDE DEF x
    <2>8. \A l \in 1 .. Len(file') : file'[l] = SavedLine(l, saved[l])'
      BY <1>1, <2>1, <2>7, Zenon DEF SavedLine
    <2> QED
      BY <1>1, <2>1, <2>2, <2>5, <2>7, <2>8, Zenon DEF SavedFile
  <1>7. CASE SaveClose
    <2>1. /\ file' = file /\ exists' = exists /\ pc = "save" /\ pc' = "idle" /\ k > Len(val)
          /\ saved' = saved /\ torn' = FALSE /\ byHand' = byHand
      BY <1>7, Zenon DEF SaveClose, disk, Count
    <2>2. ~byHand
      BY <1>1, <2>1, Zenon DEF SavedFile
    <2>3. saved = val /\ Len(file) = k - 1 /\ k <= Len(val) + 1 /\ \A l \in 1 .. Len(file) : file[l] = SavedLine(l, saved[l])
      BY <1>1, <2>1, <2>2, Zenon DEF SavedFile
    <2>4. Len(file) = Len(saved)
      BY <1>3, <2>1, <2>3
    <2>5. pc' # "save"
      BY <2>1
    <2>6. \A l \in 1 .. Len(file') : (SavedLine(l, saved[l]))' = SavedLine(l, saved[l])
      BY <1>1, <2>1, Zenon DEF SavedLine
    <2>7. /\ \A l \in 1 .. Len(file') : file'[l] = SavedLine(l, saved[l])'
      BY <2>1, <2>3, <2>6, Zenon
    <2> QED
      BY <1>1, <2>1, <2>2, <2>4, <2>5, <2>7, Zenon DEF SavedFile
  <1>8. CASE Crash
    <2>1. /\ exists' = exists /\ pc' = "idle" /\ saved' = saved /\ torn' = torn /\ byHand' = byHand
      BY <1>8, Zenon DEF Crash, Restart
    <2>2. /\ pc # "save" => file' = file
          /\ \E W : file' \in Seq(W)
          /\ Len(file') <= Len(file)
          /\ \A l \in 1 .. Len(file') : file'[l] = file[l] \/ (pc = "save" /\ file'[l] \in Remains(file[l]))
      BY <1>8, CrashLeaves
    <2>3. pc' # "save"
      BY <2>1
    <2>4. CASE pc # "save"
      <3>1. file' = file
        BY <2>2, <2>4
      <3> QED
        BY <1>1, <2>1, <2>3, <2>4, <3>1, Zenon DEF SavedFile, SavedLine
    <2>5. CASE pc = "save"
      <3>1. ~byHand /\ torn
        BY <1>1, <2>5, Zenon DEF SavedFile
      <3>2. saved = val /\ \A l \in 1 .. Len(file) : file[l] = SavedLine(l, saved[l])
        BY <1>1, <2>5, <3>1, Zenon DEF SavedFile
      <3>3. Len(file) <= Len(saved)
        BY <1>1, <3>1, Zenon DEF SavedFile
      <3>4. Len(file') <= Len(saved')
        BY <1>3, <2>1, <2>2, <3>3
      <3>5. ASSUME NEW l \in 1 .. Len(file')
            PROVE  /\ file'[l].key = table[l].name
                   /\ Terminator(table[l].type) \in file'[l].ends => Intact(table[l].type, file'[l], saved[l])
        <4> DEFINE text == SavedText(table[l].type, saved[l])
        <4>1. l \in 1 .. Len(file)
          BY <1>3, <2>2
        <4>2. file[l] = Line(table[l].name, text, SavedEnds(text))
          BY <3>2, <4>1 DEF SavedLine
        <4>3. file[l] \in Remains(file[l])
          BY DEF Remains
        <4>4. file'[l] \in Remains(Line(table[l].name, text, SavedEnds(text)))
          BY <2>2, <4>2, <4>3
        <4>5. Terminator(table[l].type) \in file'[l].ends => Intact(table[l].type, file'[l], saved[l])
          BY <4>4, CutIsIntact
        <4>6. file'[l].key = table[l].name
          <5> HIDE DEF text
          <5> QED
            BY <4>4, RemainsFacts
        <4> QED
          BY <4>5, <4>6
      <3> QED
        BY <1>1, <2>1, <2>3, <3>1, <3>4, <3>5, Zenon DEF SavedFile
    <2> QED
      BY <2>4, <2>5
  <1> QED
    BY <1>4, <1>5, <1>6, <1>7, <1>8, RestsOrWrites, Zenon DEF Writes

\* The lengths the invariant bounds.
LEMMA Lengths ==
  ASSUME TxtInv
  PROVE  /\ Len(val) \in Nat /\ Len(saved) \in Nat /\ Len(file) \in Nat /\ Len(table) \in Nat
         /\ Len(val) <= Len(table) /\ Len(saved) <= Len(table) /\ Len(changed) = Len(val) /\ k \in Nat
         /\ (\E V : val \in Seq(V)) /\ changed \in Seq(BOOLEAN)
         /\ \A i \in 1 .. Len(val) : Holds(table[i].type, val[i])
         /\ \A i \in 1 .. Len(saved) : Holds(table[i].type, saved[i])
  <1>1. /\ (\E W : val \in Seq(W)) /\ (\E W : saved \in Seq(W)) /\ (\E W : file \in Seq(W)) /\ k \in Nat
        /\ Len(val) <= Len(table) /\ Len(saved) <= Len(table) /\ Len(changed) = Len(val) /\ changed \in Seq(BOOLEAN)
        /\ \A i \in 1 .. Len(val) : Holds(table[i].type, val[i])
        /\ \A i \in 1 .. Len(saved) : Holds(table[i].type, saved[i])
    BY Zenon DEF TxtInv, ValuesFit, Held, Scalars, Lines
  <1>2. Len(table) \in Nat
    BY TypesFit DEF TxtInv
  <1>3. Len(val) \in Nat /\ Len(saved) \in Nat /\ Len(file) \in Nat
    BY <1>1
  <1> QED
    BY <1>1, <1>2, <1>3, Zenon

\* In a file that was saved, the line of a parameter is the one of its number.
LEMMA OwnLine ==
  ASSUME TxtInv, ~byHand, NEW j \in 1 .. Len(table), k \in 1 .. Len(file), file[k].key = table[j].name
  PROVE  j = k /\ k \in 1 .. Len(saved)
  <1>1. Len(file) <= Len(saved) /\ file[k].key = table[k].name
    BY Zenon DEF TxtInv, SavedFile
  <1>2. k \in 1 .. Len(saved) /\ k \in 1 .. Len(table)
    BY <1>1, Lengths
  <1>3. \A i, l \in 1 .. Len(table) : table[i].name = table[l].name => i = l
    BY Zenon DEF TxtInv, Tabled
  <1> QED
    BY <1>1, <1>2, <1>3, Zenon

\* Of a saved file a variable takes the line of its own number.
LEMMA TakesOwnLine ==
  ASSUME TxtInv, ~byHand, NEW j, Takes(j)
  PROVE  /\ j = k /\ pc = "parse" /\ k \in 1 .. Len(file) /\ k \in 1 .. Len(saved) /\ k \in 1 .. Len(val)
         /\ table[k].type \in AllTypes /\ Holds(table[k].type, saved[k])
         /\ Terminator(table[k].type) \in file[k].ends => Intact(table[k].type, file[k], saved[k])
  <1>1. j \in 1 .. Count /\ k <= Len(file) /\ file[k].key = table[j].name /\ pc = "parse"
    BY Zenon DEF Takes, InLine
  <1>2. k \in 1 .. Len(file) /\ j \in 1 .. Len(table)
    <2>1. k >= 1
      BY <1>1 DEF TxtInv, Scalars
    <2> QED
      BY <1>1, <2>1, Lengths DEF Count
  <1>3. j = k /\ k \in 1 .. Len(saved)
    BY <1>1, <1>2, OwnLine
  <1>4. table[k].type \in AllTypes
    BY <1>2, <1>3, TypesFit DEF TxtInv
  <1>5. Terminator(table[k].type) \in file[k].ends => Intact(table[k].type, file[k], saved[k])
    BY <1>2, Zenon DEF TxtInv, SavedFile
  <1> QED
    BY <1>1, <1>2, <1>3, <1>4, <1>5, Lengths, Zenon DEF Count

\* What the parse does to the value of the line it is at.
LEMMA TakesSaved ==
  ASSUME TxtInv, ~byHand, NEW j, Takes(j), Survives(table[k].type, saved[k]), Terminator(table[k].type) \in file[k].ends
  PROVE  val'[k] = saved[k]
  <1>1. PICK o \in Outcomes(table[j].type, file[k]) :
            \/ o.does \in {"store", "items"} /\ val' = [val EXCEPT ![j] = o.value]
            \/ o.does \notin {"store", "items"} /\ val' = val
    BY Zenon DEF Takes
  <1>2. j = k /\ k \in 1 .. Len(val) /\ o = Store(saved[k])
    <2>1. Outcomes(table[k].type, file[k]) = {Store(saved[k])}
      BY TakesOwnLine, ReadsBack, Zenon
    <2> QED
      BY <1>1, <2>1, TakesOwnLine
  <1>3. o.does = "store" /\ o.value = saved[k]
    BY <1>2 DEF Store
  <1> QED
    BY <1>1, <1>2, <1>3, Lengths

\* A line without the end of its value changes no variable but a string.
LEMMA TakesNothing ==
  ASSUME TxtInv, NEW j, Takes(j), Terminator(table[j].type) \notin file[k].ends, table[j].type # "STR"
  PROVE  val' = val /\ changed' = changed
  <1>1. PICK o \in Outcomes(table[j].type, file[k]) :
          /\ o.does \in {"store", "keep", "items", "skip"}
          /\ \/ o.does \in {"store", "items"} /\ val' = [val EXCEPT ![j] = o.value]
             \/ o.does \notin {"store", "items"} /\ val' = val
          /\ \/ o.does \in {"store", "keep"} /\ changed' = [changed EXCEPT ![j] = TRUE]
             \/ changed' = changed
    BY Zenon DEF Takes
  <1>2. o = Dies \/ o = Skip
    BY CutGivesNothing
  <1>3. o.does \notin {"store", "keep", "items"}
    BY <1>2 DEF Dies, Skip
  <1> QED
    BY <1>1, <1>3

\* The other values are left alone.
LEMMA TakesOne ==
  ASSUME TxtInv, NEW j, Takes(j)
  PROVE  /\ Len(val') = Len(val)
         /\ \A i \in 1 .. Len(val) : i # j => val'[i] = val[i] /\ (changed'[i] <=> changed[i])
  <1>1. PICK v : val' = val \/ val' = [val EXCEPT ![j] = v]
    BY Zenon DEF Takes
  <1>2. changed' = changed \/ changed' = [changed EXCEPT ![j] = TRUE]
    BY Zenon DEF Takes
  <1>3. PICK V : val \in Seq(V)
    BY Lengths
  <1>4. Len(changed) = Len(val) /\ changed \in Seq(BOOLEAN) /\ Len(val) \in Nat /\ j \in 1 .. Len(val)
    BY Lengths, Zenon DEF Takes, Count
  <1>5. Len(val') = Len(val) /\ \A i \in 1 .. Len(val) : i # j => val'[i] = val[i]
    BY <1>1, <1>3, <1>4
  <1>6. \A i \in 1 .. Len(val) : i # j => (changed'[i] <=> changed[i])
    <2>1. CASE changed' = changed
      BY <2>1, Zenon
    <2>2. CASE changed' = [changed EXCEPT ![j] = TRUE]
      <3>1. DOMAIN changed = 1 .. Len(val)
        BY <1>4
      <3> QED
        BY <2>2, <3>1, Zenon
    <2> QED
      BY <1>2, <2>1, <2>2
  <1> QED
    BY <1>5, <1>6, Zenon

\* The steps of a parse.
LEMMA ParseSteps ==
  ASSUME TxtInv, [Next]_vars, pc' = "parse"
  PROVE  \/ ParseOpen
         \/ ParseOther
         \/ \E j \in 1 .. MaxParams : ParseParam(j)
         \/ UNCHANGED vars
  <1> USE DEF Idle, disk, history, context
  <1>2. CASE Register
    BY <1>2 DEF Register
  <1>3. CASE SaveNothing
    BY <1>3 DEF SaveNothing
  <1>4. CASE SaveCannotOpen
    BY <1>4 DEF SaveCannotOpen, Restart
  <1>5. CASE ParseCannotOpen
    BY <1>5 DEF ParseCannotOpen
  <1>8. CASE ParseEnd
    BY <1>8 DEF ParseEnd, Return
  <1>9. ASSUME NEW j, SetVariable(j) PROVE FALSE
    BY <1>9 DEF SetVariable
  <1>11. ASSUME NEW j, ParseFail(j) PROVE FALSE
    BY <1>11 DEF ParseFail, Return
  <1>12. ASSUME NEW j, ParseDie(j) PROVE FALSE
    BY <1>12 DEF ParseDie, Restart
  <1>13. CASE Crash
    BY <1>13 DEF Crash, Restart
  <1>14. CASE SaveOpen
    BY <1>14 DEF SaveOpen
  <1>15. CASE SaveParam
    BY <1>15 DEF SaveParam
  <1>16. CASE SaveClose
    BY <1>16 DEF SaveClose
  <1> QED
    BY <1>2, <1>3, <1>4, <1>5, <1>8, <1>9, <1>11, <1>12, <1>13, <1>14, <1>15, <1>16, Zenon DEF Next

\* A variable that was read back stays as it was saved until the parse ends.
LEMMA IsReadStep ==
  ASSUME TxtInv, [Next]_vars
  PROVE  IsRead'
  <1>1. table' = table
    BY TableStep
  <1> SUFFICES ASSUME pc' = "parse", ~byHand', NEW j \in 1 .. Len(val'), j < k', j <= Len(file'),
                      Survives(table[j].type, saved'[j]), Terminator(table[j].type) \in file'[j].ends
               PROVE  val'[j] = saved'[j]
    BY <1>1, Zenon DEF IsRead
  <1>2. CASE ParseOpen
    <2>1. k' = 1
      BY <1>2, Zenon DEF ParseOpen
    <2> QED
      BY <2>1
  <1>3. CASE UNCHANGED vars
    <2>1. pc' = pc /\ byHand' = byHand /\ val' = val /\ k' = k /\ file' = file /\ saved' = saved
      BY <1>3, Zenon DEF vars, disk, context, history
    <2>2. IsRead
      BY DEF TxtInv
    <2> QED
      BY <2>1, <2>2, Zenon DEF IsRead
  <1>4. CASE ParseOther
    <2>1. pc = "parse" /\ byHand' = byHand /\ val' = val /\ k' = k + 1 /\ file' = file /\ saved' = saved
          /\ k <= Len(file) /\ \A i \in 1 .. Count : ~InLine(i)
      BY <1>4, Zenon DEF ParseOther, disk, context, history
    <2>2. j # k
      <3> SUFFICES ASSUME j = k PROVE FALSE
        OBVIOUS
      <3>1. k \in 1 .. Len(file) /\ k \in 1 .. Count /\ k <= Count
        BY <2>1, Lengths DEF Count
      <3>2. file[k].key = table[k].name
        BY <2>1, <3>1, Zenon DEF TxtInv, SavedFile
      <3> QED
        BY <2>1, <3>1, <3>2, Zenon DEF InLine
    <2>3. j < k
      BY <2>1, <2>2, Lengths
    <2> QED
      BY <2>1, <2>3, Zenon DEF TxtInv, IsRead
  <1>5. ASSUME NEW i \in 1 .. MaxParams, ParseParam(i) PROVE val'[j] = saved'[j]
    <2>1. byHand' = byHand /\ file' = file /\ saved' = saved
      BY <1>5, Zenon DEF ParseParam, disk, history
    <2>2. Takes(i) /\ ~byHand
      BY <1>5, <2>1, ParamTakes, Zenon
    <2>3. k' = k + 1 /\ pc = "parse"
      BY <2>2, TakesOwnLine, Zenon DEF Takes
    <2>4. i = k
      BY <2>2, TakesOwnLine
    <2>5. CASE j = k
      BY <2>1, <2>2, <2>5, TakesSaved
    <2>6. CASE j # k
      <3>1. j \in 1 .. Len(val) /\ val'[j] = val[j] /\ j < k
        BY <2>2, <2>3, <2>4, <2>6, TakesOne, Lengths
      <3> QED
        BY <2>1, <2>2, <2>3, <3>1, Zenon DEF TxtInv, IsRead
    <2> QED
      BY <2>5, <2>6
  <1> QED
    BY <1>2, <1>3, <1>4, <1>5, ParseSteps, Zenon

\* A variable is marked as changed by no line that was cut.
LEMMA IsChangedStep ==
  ASSUME TxtInv, [Next]_vars
  PROVE  IsChanged'
  <1>1. table' = table
    BY TableStep
  <1> SUFFICES ASSUME ~byHand', torn', pc' # "save", NEW j \in 1 .. Len(val'), j <= Len(saved'), changed'[j],
                      Survives(table[j].type, saved'[j]), table[j].type # "STR"
               PROVE  j <= Len(file') /\ Terminator(table[j].type) \in file'[j].ends
    BY <1>1, Zenon DEF IsChanged
  <1>2. CASE Rests
    <2>1. file' = file /\ saved' = saved /\ torn' = torn /\ byHand' = byHand /\ pc # "save"
      BY <1>2, Zenon DEF Rests
    <2>2. ASSUME j \in 1 .. Len(val), changed[j] PROVE j <= Len(file) /\ Terminator(table[j].type) \in file[j].ends
      BY <2>1, <2>2, Zenon DEF TxtInv, IsChanged
    <2>3. CASE val' = val /\ changed' = changed
      BY <2>1, <2>2, <2>3, Zenon
    <2>4. CASE Gone(val', changed')
      BY <2>4 DEF Gone
    <2>5. CASE Grown
      <3>1. val' = Append(val, Default(table[Count + 1].type)) /\ changed' = Append(changed, FALSE)
        BY <2>5, Zenon DEF Grown
      <3>2. PICK V : val \in Seq(V)
        BY Lengths
      <3>3. Len(val') = Len(val) + 1
        BY <3>1, <3>2, AppendIsSeq
      <3>4. Len(changed) = Len(val) /\ changed'[Len(changed) + 1] = FALSE /\ \A i \in 1 .. Len(changed) : changed'[i] = changed[i]
        BY <3>1, Lengths, AppendIsSeq, Zenon
      <3>5. j \in 1 .. Len(val) \/ j = Len(val) + 1
        BY <3>3, Lengths
      <3>6. CASE j \in 1 .. Len(val)
        BY <2>1, <2>2, <3>4, <3>6, Zenon
      <3>7. CASE j = Len(val) + 1
        BY <3>4, <3>7, Zenon
      <3> QED
        BY <3>5, <3>6, <3>7
    <2>6. ASSUME NEW i, Given(i) PROVE j \in 1 .. Len(val) /\ changed[j]
      <3>1. changed' = changed /\ i \in 1 .. Count /\ \E v : val' = [val EXCEPT ![i] = v]
        BY <2>6, Zenon DEF Given
      <3>2. Len(val') = Len(val)
        BY <3>1, Lengths DEF Count
      <3> QED
        BY <3>1, <3>2, Zenon
    <2>7. ASSUME NEW i \in 1 .. MaxParams, Takes(i)
          PROVE  j <= Len(file') /\ Terminator(table[j].type) \in file'[j].ends
      <3>1. /\ i = k /\ k \in 1 .. Len(file)
            /\ Len(val') = Len(val) /\ (j # i => (changed'[j] <=> changed[j]))
        BY <2>1, <2>7, TakesOne, TakesOwnLine, Zenon
      <3>2. j \in 1 .. Len(val)
        BY <3>1, Zenon
      <3>3. CASE j # k
        BY <2>1, <2>2, <3>1, <3>2, <3>3, Zenon
      <3>4. CASE j = k
        <4>1. CASE Terminator(table[k].type) \notin file[k].ends
          <5>1. changed' = changed
            BY <2>7, <3>1, <3>4, <4>1, TakesNothing
          <5> QED
            BY <2>1, <2>2, <3>2, <5>1, Zenon
        <4>2. CASE Terminator(table[k].type) \in file[k].ends
          <5>1. k <= Len(file)
            BY <3>1
          <5> QED
            BY <2>1, <3>4, <4>2, <5>1, Zenon
        <4> QED
          BY <4>1, <4>2
      <3> QED
        BY <3>3, <3>4
    <2> QED
      BY <2>1, <2>2, <2>3, <2>4, <2>5, <2>6, <2>7, ValuesMove, Zenon
  <1>3. CASE SaveOpen
    BY <1>3 DEF SaveOpen
  <1>4. CASE SaveParam
    <2>1. pc' = "save"
      BY <1>4, Zenon DEF SaveParam
    <2> QED
      BY <2>1
  <1>5. CASE SaveClose
    <2>1. torn' = FALSE
      BY <1>5, Zenon DEF SaveClose
    <2> QED
      BY <2>1, Zenon
  <1>6. CASE Crash
    <2>1. val' = <<>>
      BY <1>6, Zenon DEF Crash, Restart
    <2> QED
      BY <2>1
  <1> QED
    BY <1>2, <1>3, <1>4, <1>5, <1>6, RestsOrWrites, Zenon DEF Writes

----------------------------------------------------------------------------

\* A line that is certain to be read as one thing is read as that.
LEMMA CertainIsOne ==
  ASSUME NEW type \in AllTypes, NEW line, Cardinality(Outcomes(type, line)) = 1, NEW o \in Outcomes(type, line)
  PROVE  Outcomes(type, line) = {o}
  <1>1. IsFiniteSet(Outcomes(type, line))
    BY OutcomesFinite
  <1>2. \E x : Outcomes(type, line) = {x}
    BY <1>1, FS_Singleton
  <1> QED
    BY <1>2

\* The property without its guard and for one parameter, with what it compares as parameters.
HoldsLast(j, value, first, givers) ==
    IF givers = {} THEN value = first
    ELSE \E l \in givers : value \in Gives(j, l) /\ \A m \in givers : m <= l

\* ValuesAreOfFile, by the last line that gives a value.
LEMMA ValuesOf ==
  ValuesAreOfFile <=> (pc = "parse" => \A j \in {i \in 1 .. Count : IsCertain(i)} : HoldsLast(j, val[j], base[j], Givers(j)))
  BY Zenon DEF ValuesAreOfFile, HoldsLast

\* Each variable keeps holding what the last good line of its own says.
LEMMA ValuesAreOfFileStep ==
  ASSUME TxtInv, [Next]_vars
  PROVE  ValuesAreOfFile'
  <1> SUFFICES ASSUME pc' = "parse", NEW j \in (1 .. Count)', IsCertain(j)'
               PROVE  /\ Givers(j)' = {} => val'[j] = base'[j]
                      /\ Givers(j)' # {} => \E l \in Givers(j)' : val'[j] \in Gives(j, l)' /\ \A m \in Givers(j)' : m <= l
    BY Zenon DEF ValuesAreOfFile
  <1>1. table' = table
    BY TableStep
  <1>2. ASSUME file' = file, NEW l PROVE Gives(j, l)' = Gives(j, l)
    BY <1>1, <1>2, Zenon DEF Gives, Outcomes
  <1>3. CASE ParseOpen
    <2>1. k' = 1 /\ val' = val /\ base' = val
      BY <1>3, Zenon DEF ParseOpen, context
    <2>2. Givers(j)' = {}
      BY <2>1 DEF Givers
    <2> QED
      BY <2>1, <2>2
  <1>4. CASE UNCHANGED vars
    <2>1. pc' = pc /\ val' = val /\ k' = k /\ file' = file /\ base' = base
      BY <1>4, Zenon DEF vars, disk, context, history
    <2>2. Givers(j)' = Givers(j)
      BY <1>1, <1>2, <2>1 DEF Givers
    <2>3. IsCertain(j) /\ j \in 1 .. Count
      BY <1>1, <2>1, Zenon DEF IsCertain, Outcomes, Count
    <2> QED
      BY <1>2, <2>1, <2>2, <2>3, Zenon DEF TxtInv, ValuesAreOfFile
  <1> DEFINE K == {l \in {k} : file[l].key = table[j].name /\ Gives(j, l) # {}}
  <1>5. ASSUME pc = "parse", k' = k + 1, file' = file, base' = base, Len(val') = Len(val)
        PROVE  /\ Givers(j)' = Givers(j) \cup K
               /\ j \in 1 .. Count /\ IsCertain(j) /\ Cardinality(Outcomes(table[j].type, file[k])) = 1
               /\ Givers(j) = {} => val[j] = base[j]
               /\ Givers(j) # {} => \E l \in Givers(j) : val[j] \in Gives(j, l) /\ \A m \in Givers(j) : m <= l
               /\ \A m \in Givers(j) : m <= k
    <2>1. k \in Nat /\ k >= 1
      BY <1>5 DEF TxtInv, Scalars
    <2>2. 1 .. k' - 1 = (1 .. k - 1) \cup {k}
      BY <1>5, <2>1
    <2>3. Givers(j)' = {l \in 1 .. k' - 1 : file[l].key = table[j].name /\ Gives(j, l) # {}}
      BY <1>1, <1>2, <1>5 DEF Givers
    <2>4. Givers(j)' = Givers(j) \cup K
      BY <2>2, <2>3, Zenon DEF Givers
    <2>5. \A l \in 1 .. k' - 1 : Cardinality(Outcomes(table[j].type, file[l])) = 1
      BY <1>1, <1>5, Zenon DEF IsCertain, Outcomes
    <2>6. IsCertain(j) /\ Cardinality(Outcomes(table[j].type, file[k])) = 1
      BY <2>2, <2>5, Zenon DEF IsCertain
    <2>7. j \in 1 .. Count
      BY <1>5, Zenon DEF Count
    <2>8. /\ Givers(j) = {} => val[j] = base[j]
          /\ Givers(j) # {} => \E l \in Givers(j) : val[j] \in Gives(j, l) /\ \A m \in Givers(j) : m <= l
      BY <1>5, <2>6, <2>7, Zenon DEF TxtInv, ValuesAreOfFile
    <2>9. \A m \in Givers(j) : m <= k
      BY <2>1 DEF Givers
    <2> QED
      BY <2>4, <2>6, <2>7, <2>8, <2>9
  <1>6. ASSUME pc = "parse", k' = k + 1, file' = file, base' = base, Len(val') = Len(val), val'[j] = val[j], K = {}
        PROVE  /\ Givers(j)' = {} => val'[j] = base'[j]
               /\ Givers(j)' # {} => \E l \in Givers(j)' : val'[j] \in Gives(j, l)' /\ \A m \in Givers(j)' : m <= l
    <2> HIDE DEF K
    <2>1. Givers(j)' = Givers(j)
      BY <1>5, <1>6
    <2> QED
      BY <1>2, <1>5, <1>6, <2>1, Zenon
  <1>7. CASE ParseOther
    <2>1. pc = "parse" /\ val' = val /\ k' = k + 1 /\ file' = file /\ base' = base
          /\ k <= Len(file) /\ \A i \in 1 .. Count : ~InLine(i)
      BY <1>7, Zenon DEF ParseOther, disk, context, history
    <2>2. K = {}
      <3>1. j \in 1 .. Count /\ j <= Count
        BY <1>5, <2>1
      <3>2. file[k].key # table[j].name
        BY <2>1, <3>1, Zenon DEF InLine
      <3> QED
        BY <3>2
    <2> QED
      BY <1>6, <2>1, <2>2
  <1>8. ASSUME NEW i \in 1 .. MaxParams, ParseParam(i)
        PROVE  /\ Givers(j)' = {} => val'[j] = base'[j]
               /\ Givers(j)' # {} => \E l \in Givers(j)' : val'[j] \in Gives(j, l)' /\ \A m \in Givers(j)' : m <= l
    <2>1. file' = file /\ base' = base
      BY <1>8, Zenon DEF ParseParam, disk, history
    <2>2. Takes(i)
      BY <1>8, ParamTakes
    <2>3. pc = "parse" /\ k' = k + 1 /\ Len(val') = Len(val) /\ file[k].key = table[i].name /\ i \in 1 .. Count
      BY <2>2, TakesOne, Zenon DEF Takes, InLine
    <2>4. j \in 1 .. Count /\ j \in 1 .. Len(table) /\ i \in 1 .. Len(table)
      BY <1>5, <2>1, <2>3, Lengths DEF Count
    <2>5. CASE j # i
      <3>1. val'[j] = val[j]
        <4>1. \A n \in 1 .. Len(val) : n # i => val'[n] = val[n]
          BY <2>2, TakesOne
        <4> QED
          BY <2>4, <2>5, <4>1 DEF Count
      <3>2. table[j].name # table[i].name
        BY <2>4, <2>5, Zenon DEF TxtInv, Tabled
      <3>3. K = {}
        BY <2>3, <3>2
      <3> QED
        BY <1>6, <2>1, <2>3, <3>1, <3>3
    <2>6. CASE j = i
      <3>1. PICK o \in Outcomes(table[j].type, file[k]) :
            \/ o.does \in {"store", "items"} /\ val' = [val EXCEPT ![j] = o.value]
            \/ o.does \notin {"store", "items"} /\ val' = val
        BY <2>2, <2>6, Zenon DEF Takes
      <3>2. table[j].type \in AllTypes
        BY <2>4, TypesFit DEF TxtInv
      <3>3. Outcomes(table[j].type, file[k]) = {o}
        <4>1. Cardinality(Outcomes(table[j].type, file[k])) = 1
          BY <1>5, <2>1, <2>3
        <4> QED
          BY <3>2, <4>1, CertainIsOne
      <3>4. CASE o.does \in {"store", "items"} /\ val' = [val EXCEPT ![j] = o.value]
        <4>1. val'[j] = o.value
          BY <2>4, <3>4, Lengths DEF Count
        <4>2. o.value \in Gives(j, k)
          BY <3>1, <3>4, Zenon DEF Gives
        <4>3. k \in K
          BY <2>3, <2>6, <4>2
        <4>4. PICK l : l = k
          OBVIOUS
        <4>5. l \in Givers(j)' /\ (\A m \in Givers(j)' : m <= l) /\ val'[j] \in Gives(j, l)'
          <5>1. Givers(j)' = Givers(j) \cup K /\ \A m \in Givers(j) : m <= k
            BY <1>5, <2>1, <2>3
          <5>2. \A m \in K : m <= k
            BY Lengths
          <5>3. val'[j] \in Gives(j, l)'
            BY <1>2, <2>1, <4>1, <4>2, <4>4, Zenon
          <5> HIDE DEF K
          <5> QED
            BY <4>3, <4>4, <5>1, <5>2, <5>3
        <4> QED
          BY <4>5, Zenon
      <3>5. CASE o.does \notin {"store", "items"} /\ val' = val
        <4>1. Gives(j, k) = {}
          BY <3>3, <3>5 DEF Gives
        <4>2. K = {}
          BY <4>1
        <4> QED
          BY <1>6, <2>1, <2>3, <3>5, <4>2
      <3> QED
        BY <3>1, <3>4, <3>5
    <2> QED
      BY <2>5, <2>6
  <1> QED
    BY <1>3, <1>4, <1>7, <1>8, ParseSteps, Zenon

\* Every step of ParamFile keeps the invariant.
LEMMA TxtInductive ==
  ASSUME TxtInv, [Next]_vars
  PROVE  TxtInv'
  BY TabledStep, LinesStep, ValuesStep, ScalarsStep, BooleansStep, SavedFileStep, IsReadStep, IsChangedStep,
     ValuesAreOfFileStep, Zenon DEF TxtInv

\* The invariant holds in every state of ParamFile.
THEOREM TxtInvariant == Spec => []TxtInv
  <1>1. Init => TxtInv
    BY TxtInitHolds, Zenon DEF Init
  <1>2. TxtInv /\ [Next]_vars => TxtInv'
    BY TxtInductive
  <1> QED
    BY <1>1, <1>2, PTL DEF Spec

\* The invariant has the types of ParamFile in it.
LEMMA TxtInvTypes == TxtInv => TypeOK
  <1> SUFFICES ASSUME TxtInv PROVE TypeOK
    OBVIOUS
  <1>1. table \in Seq(Param) /\ Len(table) <= MaxParams
    BY Zenon DEF TxtInv, Tabled
  <1>2. \A j \in 1 .. Len(file) : file[j].key \in Names \cup {"other"} /\ file[j].ends \subseteq {"quote", "bracket", "blank"}
    BY Zenon DEF TxtInv, Lines, IsLine
  <1>3. exists \in BOOLEAN /\ (~exists => file = <<>>)
    BY Zenon DEF TxtInv, Lines
  <1>4. Count <= Len(table) /\ Len(saved) <= Len(table) /\ Len(base) <= Count
    BY Zenon DEF TxtInv, ValuesFit, Held, Count
  <1>5. changed \in [1 .. Count -> BOOLEAN]
    <2>1. changed \in [1 .. Len(changed) -> BOOLEAN]
      BY Lengths, LenProperties
    <2> QED
      BY <2>1, Lengths, Zenon DEF Count
  <1>6. ASSUME NEW j \in 1 .. Count
        PROVE  /\ table[j].type \notin ListTypes => Len(val[j]) = 1
               /\ table[j].type \in ListTypes => Len(val[j]) <= ArrayCap
    <2>1. table[j].type \in AllTypes /\ Holds(table[j].type, val[j])
      BY Lengths, TypesFit DEF TxtInv, Count
    <2>2. CASE table[j].type \notin ListTypes
      <3>1. PICK w : val[j] = <<w>>
        BY <2>1, <2>2, HoldsSingle
      <3> QED
        BY <2>2, <3>1
    <2>3. CASE table[j].type \in ListTypes
      BY <2>1, <2>3, HoldsList
    <2> QED
      BY <2>2, <2>3
  <1>7. Scalars /\ Booleans
    BY DEF TxtInv
  <1> QED
    BY <1>1, <1>2, <1>3, <1>4, <1>5, <1>6, <1>7, Zenon DEF TypeOK, Scalars, Booleans

\* ParamFile!TypeOK: no list is longer than its array (file_parser.h:420-470), and each
\* variable holds one value of its type.
THEOREM TxtTypeInvariant == Spec => []TypeOK
  BY TxtInvariant, TxtInvTypes, PTL

\* While a .txt file is read each variable holds what the last good line of its own says,
\* or what it held before the parse (param_parse_txt).
THEOREM ValuesAreOfFileHolds == Spec => []ValuesAreOfFile
  <1>1. TxtInv => ValuesAreOfFile
    BY DEF TxtInv
  <1> QED
    BY TxtInvariant, <1>1, PTL

\* The lines of a save that was finished are whole.
LEMMA FinishedIsWhole ==
  ASSUME TxtInv, ~byHand, ~torn, NEW l \in 1 .. Len(file), saved[l] # <<>>
  PROVE  Intact(table[l].type, file[l], saved[l])
  <1>1. file[l] = SavedLine(l, saved[l]) /\ Len(file) <= Len(saved)
    BY Zenon DEF TxtInv, SavedFile
  <1>2. l \in 1 .. Len(saved) /\ l \in 1 .. Len(table)
    BY <1>1, Lengths
  <1>3. table[l].type \in AllTypes /\ Holds(table[l].type, saved[l])
    BY <1>2, TypesFit, Lengths DEF TxtInv
  <1> QED
    BY <1>1, <1>3, WholeIsIntact DEF SavedLine

\* What a step of a parse does to the process.
LEMMA ParseActions ==
  ASSUME TxtInv, [Next]_vars, pc = "parse"
  PROVE  \/ \E j \in 1 .. MaxParams : ParseParam(j)
         \/ \E j \in 1 .. MaxParams : ParseDie(j)
         \/ Crash
         \/ ParseEnd /\ val' = val
         \/ val' = val /\ ret' # "true"
  <1> USE DEF Idle, disk, history, context
  <1>0. ret = "none"
    BY DEF TxtInv, Scalars
  <1>1. CASE UNCHANGED vars
    <2>1. val' = val /\ ret' = ret
      BY <1>1, Zenon DEF vars
    <2> QED
      BY <1>0, <2>1
  <1>2. pc # "idle" /\ pc # "save"
    OBVIOUS
  <1>3. CASE ParseOther
    <2>1. val' = val /\ ret' = ret
      BY <1>3, Zenon DEF ParseOther
    <2> QED
      BY <1>0, <2>1
  <1>4. CASE ParseEnd
    BY <1>4, Zenon DEF ParseEnd
  <1>5. ASSUME NEW j, ParseFail(j) PROVE val' = val /\ ret' # "true"
    <2>1. val' = val /\ ret' = "false"
      BY <1>5, Zenon DEF ParseFail, Return
    <2> QED
      BY <2>1
  <1>6. ~Register /\ ~SaveNothing /\ ~SaveCannotOpen /\ ~SaveOpen /\ ~SaveParam /\ ~SaveClose /\ ~ParseCannotOpen /\ ~ParseOpen
        /\ \A j : ~SetVariable(j)
    BY <1>2, Zenon DEF Register, SaveNothing, SaveCannotOpen, SaveOpen, SaveParam, SaveClose, ParseCannotOpen, ParseOpen, SetVariable
  <1> QED
    BY <1>1, <1>3, <1>4, <1>5, <1>6, Zenon DEF Next

\* A variable that a parse changes gets what was saved, but for a string that was cut off.
LEMMA ReadsStep ==
  ASSUME TxtInv, [Next]_vars, NEW j \in 1 .. Count, pc = "parse", Len(val') = Count, val'[j] # val[j], ~byHand,
         Survives(table[j].type, saved[j])
  PROVE  val'[j] = saved[j] \/ (torn /\ table[j].type = "STR")
  <1>0. Len(val) >= 1 /\ j \in 1 .. Len(val)
    BY Lengths DEF Count
  <1>1. ASSUME val' = <<>> PROVE FALSE
    BY <1>0, <1>1 DEF Count
  <1>2. ASSUME NEW i \in 1 .. MaxParams, ParseParam(i) PROVE val'[j] = saved[j] \/ (torn /\ table[j].type = "STR")
    <2>1. Takes(i)
      BY <1>2, ParamTakes
    <2>2. i = k /\ k \in 1 .. Len(file) /\ k \in 1 .. Len(saved) /\ k \in 1 .. Len(val) /\ table[k].type \in AllTypes
          /\ Holds(table[k].type, saved[k])
      BY <2>1, TakesOwnLine
    <2>3. j = k
      <3>1. \A n \in 1 .. Len(val) : n # i => val'[n] = val[n]
        BY <2>1, TakesOne
      <3> QED
        BY <1>0, <2>2, <3>1
    <2>4. CASE Terminator(table[k].type) \in file[k].ends
      BY <2>1, <2>3, <2>4, TakesSaved
    <2>5. CASE Terminator(table[k].type) \notin file[k].ends
      <3>1. table[k].type = "STR"
        BY <2>1, <2>2, <2>3, <2>5, TakesNothing
      <3>2. ASSUME ~torn PROVE FALSE
        <4>1. saved[k] # <<>>
          BY <2>2, <2>3, SurvivorIsNotEmpty
        <4>2. Intact(table[k].type, file[k], saved[k])
          BY <2>2, <3>2, <4>1, FinishedIsWhole
        <4> QED
          BY <2>5, <4>2, Zenon DEF Intact
      <3> QED
        BY <2>3, <3>1, <3>2, Zenon
    <2> QED
      BY <2>4, <2>5
  <1>3. ASSUME NEW i, ParseDie(i) PROVE val' = <<>>
    BY <1>3, Zenon DEF ParseDie, Restart
  <1>4. CASE Crash
    BY <1>1, <1>4, Zenon DEF Crash, Restart
  <1> QED
    BY <1>1, <1>2, <1>3, <1>4, ParseActions, Zenon

\* What a parse takes from a file that was saved is what was saved; only a string that a
\* crash cut off is another.
THEOREM ReadsWhatWasSavedHolds == Spec => ReadsWhatWasSaved
  <1>1. TxtInv /\ [Next]_vars =>
          [\A j \in 1 .. Count :
             pc = "parse" /\ Len(val') = Count /\ val'[j] # val[j] /\ ~byHand
             /\ Survives(table[j].type, saved[j])
               => val'[j] = saved[j] \/ (torn /\ table[j].type = "STR")]_vars
    BY ReadsStep, Zenon
  <1> QED
    BY TxtInvariant, <1>1, PTL DEF Spec, ReadsWhatWasSaved

\* A parse that returns true has read back what it had to.
LEMMA RestoresStep ==
  ASSUME TxtInv, [Next]_vars, pc = "parse", ret' = "true", ~byHand, NEW j \in 1 .. Len(saved), j <= Count,
         Survives(table[j].type, saved[j]), ~torn \/ (table[j].mandatory /\ table[j].type # "STR")
  PROVE  val[j] = saved[j]
  <1>1. ParseEnd
    <2>1. ASSUME NEW i \in 1 .. MaxParams, ParseParam(i) PROVE ret' # "true"
      <3>1. ret' = ret
        BY <2>1, Zenon DEF ParseParam
      <3> QED
        BY <3>1 DEF TxtInv, Scalars
    <2>2. ASSUME NEW i, ParseDie(i) PROVE ret' # "true"
      <3>1. ret' = "none"
        BY <2>2, Zenon DEF ParseDie, Restart
      <3> QED
        BY <3>1
    <2>3. ASSUME Crash PROVE ret' # "true"
      <3>1. ret' = "none"
        BY <2>3, Zenon DEF Crash, Restart
      <3> QED
        BY <3>1
    <2> QED
      BY <2>1, <2>2, <2>3, ParseActions, Zenon
  <1>2. k > Len(file)
    BY <1>1, Zenon DEF ParseEnd
  <1>3. Missing = {}
    <2>1. ASSUME Missing # {} PROVE ret' = "false"
      BY <1>1, <2>1, Zenon DEF ParseEnd, Return
    <2>2. "false" # "true"
      OBVIOUS
    <2> QED
      BY <2>1, <2>2, Zenon
  <1>4. j \in 1 .. Len(val) /\ j \in 1 .. Count /\ j \in 1 .. Len(table)
    BY Lengths DEF Count
  <1>5. j <= Len(file) /\ Terminator(table[j].type) \in file[j].ends
    <2>1. CASE ~torn
      <3>1. Len(file) = Len(saved)
        BY <2>1, Zenon DEF TxtInv, SavedFile
      <3>2. j \in 1 .. Len(file)
        BY <3>1, Zenon
      <3>3. saved[j] # <<>>
        BY <1>4, Lengths, TypesFit, SurvivorIsNotEmpty DEF TxtInv
      <3>4. Intact(table[j].type, file[j], saved[j])
        BY <2>1, <3>2, <3>3, FinishedIsWhole
      <3> QED
        BY <3>1, <3>4, Lengths DEF Intact
    <2>2. CASE torn /\ table[j].mandatory /\ table[j].type # "STR"
      <3>1. changed[j]
        BY <1>3, <1>4, <2>2, Zenon DEF Missing
      <3>2. pc # "save" /\ j <= Len(saved)
        BY Lengths
      <3> QED
        BY <1>4, <2>2, <3>1, <3>2, Zenon DEF TxtInv, IsChanged
    <2> QED
      BY <2>1, <2>2, Zenon
  <1>6. j < k
    BY <1>2, <1>5, Lengths
  <1> QED
    BY <1>4, <1>5, <1>6, Zenon DEF TxtInv, IsRead

\* A parse of a saved file that returns true gives back every variable that survives a save;
\* after a save that was cut off, the mandatory ones.
THEOREM RestoresHolds == Spec => Restores
  <1>1. TxtInv /\ [Next]_vars =>
          [pc = "parse" /\ ret' = "true" /\ ~byHand =>
              \A j \in 1 .. Len(saved) :
                  (/\ j <= Count
                   /\ Survives(table[j].type, saved[j])
                   /\ ~torn \/ (table[j].mandatory /\ table[j].type # "STR"))
                  => val[j] = saved[j]]_vars
    BY RestoresStep, Zenon
  <1> QED
    BY TxtInvariant, <1>1, PTL DEF Spec, Restores

\* Only a cut file, or an empty list, ends the process that reads what was saved.
LEMMA SafeStep ==
  ASSUME TxtInv, [Next]_vars, pc = "parse", val # <<>>, val' = <<>>, crashes' = crashes, ~byHand, ~torn
  PROVE  \E j \in 1 .. Len(saved) : table[j].type \in ListTypes /\ saved[j] = <<>>
  <1>0. Len(val) # 0
    BY Lengths
  <1>1. ASSUME NEW i \in 1 .. MaxParams, ParseParam(i) PROVE FALSE
    <2>1. Len(val') = Len(val)
      BY <1>1, ParamTakes, TakesOne, Zenon
    <2> QED
      BY <1>0, <2>1
  <1>2. ASSUME Crash PROVE FALSE
    <2>1. crashes' = crashes + 1 /\ crashes \in 0 .. MaxCrashes
      BY <1>2, Zenon DEF Crash, TxtInv, Scalars
    <2> QED
      BY <2>1
  <1>3. PICK i \in 1 .. MaxParams : ParseDie(i)
    <2>1. val' # val
      OBVIOUS
    <2>2. (\E i \in 1 .. MaxParams : ParseParam(i)) \/ (\E i \in 1 .. MaxParams : ParseDie(i)) \/ Crash \/ val' = val
      BY ParseActions, Zenon
    <2> QED
      BY <1>1, <1>2, <2>1, <2>2, Zenon
  <1>4. Dies \in Outcomes(table[i].type, file[k]) /\ i <= Count /\ k <= Len(file) /\ file[k].key = table[i].name
    BY <1>3, Zenon DEF ParseDie, InLine
  <1>5. i \in 1 .. Len(table) /\ k \in 1 .. Len(file)
    <2>1. k >= 1
      BY DEF TxtInv, Scalars
    <2>2. i \in Nat /\ i >= 1
      BY ParamAssumption
    <2> QED
      BY <1>4, <2>1, <2>2, Lengths DEF Count
  <1>6. i = k /\ k \in 1 .. Len(saved)
    BY <1>4, <1>5, OwnLine
  <1>7. table[k].type \in AllTypes /\ Holds(table[k].type, saved[k])
    BY <1>5, <1>6, Lengths, TypesFit DEF TxtInv
  <1>8. saved[k] = <<>>
    <2> SUFFICES ASSUME saved[k] # <<>> PROVE FALSE
      OBVIOUS
    <2>1. Intact(table[k].type, file[k], saved[k])
      BY <1>5, FinishedIsWhole
    <2> QED
      BY <1>4, <1>6, <1>7, <2>1, SavedNeverDies
  <1>9. table[k].type \in ListTypes
    <2> SUFFICES ASSUME table[k].type \notin ListTypes PROVE FALSE
      OBVIOUS
    <2>1. PICK w : saved[k] = <<w>>
      BY <1>7, HoldsSingle
    <2> QED
      BY <1>8, <2>1
  <1> QED
    BY <1>6, <1>8, <1>9

\* A file that was saved whole does not end the process that parses it, unless a list in it
\* is empty.
THEOREM SavedFileIsSafeHolds == Spec => SavedFileIsSafe
  <1>1. TxtInv /\ [Next]_vars =>
          [pc = "parse" /\ val # <<>> /\ val' = <<>> /\ crashes' = crashes /\ ~byHand =>
              torn \/ \E j \in 1 .. Len(saved) : table[j].type \in ListTypes /\ saved[j] = <<>>]_vars
    BY SafeStep, Zenon
  <1> QED
    BY TxtInvariant, <1>1, PTL DEF Spec, SavedFileIsSafe

----------------------------------------------------------------------------
(* The table of numbers (CsvTable) *)

\* A set of numbers that is not empty has a least one.
LEMMA HasLeast ==
  ASSUME NEW S, S \subseteq Nat, S # {}
  PROVE  \E m \in S : \A j \in S : m <= j
  <1>1. PICK x \in S : \A y \in S : ~(<<y, x>> \in OpToRel(<, Nat))
    BY NatLessThanWellFounded, WFMin
  <1>2. \A y \in S : ~(y < x)
    BY <1>1 DEF OpToRel
  <1> QED
    BY <1>2

\* The numbers of a set up to one.
UpToIn(S, i) == {j \in S : j <= i}

\* Sets of such numbers are finite.
LEMMA Interval ==
  ASSUME NEW n \in Nat
  PROVE  Cardinality(1 .. n) = n /\ \A S \in SUBSET (1 .. n) : IsFiniteSet(S) /\ Cardinality(S) \in Nat
  <1>1. IsFiniteSet(1 .. n) /\ Cardinality(1 .. n) = n
    <2>1. IsFiniteSet(1 .. n) /\ Cardinality(1 .. n) = IF 1 > n THEN 0 ELSE n - 1 + 1
      BY FS_Interval
    <2> QED
      BY <2>1
  <1>2. ASSUME NEW S \in SUBSET (1 .. n) PROVE IsFiniteSet(S) /\ Cardinality(S) \in Nat
    <2>1. IsFiniteSet(S)
      BY <1>1, FS_Subset
    <2> QED
      BY <2>1, FS_CardinalityType
  <1> QED
    BY <1>1, <1>2

\* The numbers of a set up to the least of an upper part of it are one more than the others.
LEMMA OneMore ==
  ASSUME NEW n \in Nat, NEW S, S \subseteq 1 .. n, NEW T, T \subseteq S, T # {},
         \A j \in S \ T, t \in T : j < t
  PROVE  \E t \in T : Cardinality(UpToIn(S, t)) = Cardinality(S \ T) + 1
  <1>1. PICK t \in T : \A j \in T : t <= j
    <2>1. T \subseteq Nat
      OBVIOUS
    <2> QED
      BY <2>1, HasLeast
  <1>2. \A j \in S : j <= t <=> (j \in S \ T \/ j = t)
    <2>1. \A j \in S : j \in Int
      OBVIOUS
    <2> QED
      BY <1>1, <2>1
  <1>3. UpToIn(S, t) = (S \ T) \cup {t}
    BY <1>2 DEF UpToIn
  <1>4. IsFiniteSet(S \ T) /\ t \notin S \ T
    BY Interval
  <1> QED
    BY <1>3, <1>4, FS_AddElement

\* A set of numbers has an i-th one, for each i up to its size.
LEMMA NthExists ==
  ASSUME NEW n \in Nat, NEW S, S \subseteq 1 .. n, NEW i \in 1 .. Cardinality(S)
  PROVE  \E x \in S : Cardinality(UpToIn(S, x)) = i
  <1>0. IsFiniteSet(S) /\ Cardinality(S) \in Nat
    BY Interval
  <1> DEFINE Bad == {j \in 1 .. Cardinality(S) : ~ \E x \in S : Cardinality(UpToIn(S, x)) = j}
  <1> SUFFICES ASSUME Bad # {} PROVE FALSE
    OBVIOUS
  <1>1. PICK j \in Bad : \A m \in Bad : j <= m
    <2>1. Bad \subseteq Nat
      BY <1>0
    <2> HIDE DEF Bad
    <2> QED
      BY <2>1, HasLeast
  <1>2. S # {}
    <2> SUFFICES ASSUME S = {} PROVE FALSE
      OBVIOUS
    <2> QED
      BY <1>1, FS_EmptySet
  <1>3. CASE j = 1
    <2>1. \E t \in S : Cardinality(UpToIn(S, t)) = Cardinality(S \ S) + 1
      BY <1>2, OneMore
    <2>2. S \ S = {}
      OBVIOUS
    <2>3. \E t \in S : Cardinality(UpToIn(S, t)) = 1
      <3>1. Cardinality({}) + 1 = 1
        BY FS_EmptySet
      <3> QED
        BY <2>1, <2>2, <3>1
    <2> QED
      BY <1>1, <1>3, <2>3
  <1>4. CASE j # 1
    <2>1. j - 1 \in 1 .. Cardinality(S) /\ j - 1 \notin Bad
      BY <1>0, <1>1, <1>4
    <2>2. PICK x \in S : Cardinality(UpToIn(S, x)) = j - 1
      BY <2>1
    <2> DEFINE T == {y \in S : y > x}
    <2>3. \A y \in S : y \in Int
      OBVIOUS
    <2>4. \A y \in S : y <= x <=> y \notin T
      BY <2>3
    <2>5. S \ T = UpToIn(S, x) /\ T \subseteq S
      BY <2>4 DEF UpToIn
    <2>6. T # {}
      <3> SUFFICES ASSUME T = {} PROVE FALSE
        OBVIOUS
      <3>1. UpToIn(S, x) = S
        BY <2>5
      <3> QED
        BY <1>0, <1>1, <2>2, <3>1
    <2>7. \A y \in S \ T, t \in T : y < t
      BY <2>3
    <2> HIDE DEF T
    <2>8. \E t \in T : Cardinality(UpToIn(S, t)) = Cardinality(S \ T) + 1
      BY <2>5, <2>6, <2>7, OneMore
    <2>9. \E t \in S : Cardinality(UpToIn(S, t)) = j
      BY <1>0, <1>1, <2>2, <2>5, <2>8
    <2> QED
      BY <1>1, <2>9
  <1> QED
    BY <1>3, <1>4

\* The instance of CsvTable has cardinalities of its own.
LEMMA CsvCardinality == ASSUME NEW S PROVE Csv!Cardinality(S) = Cardinality(S)
  BY DEF Csv!Cardinality, Cardinality

\* Nth, with the cardinality of this module.
LEMMA NthIs == ASSUME NEW S, NEW n PROVE Csv!Nth(S, n) = CHOOSE i \in S : Cardinality({j \in S : j <= i}) = n
  BY CsvCardinality, Zenon DEF Csv!Nth

\* The i-th number of a set is in it.
LEMMA NthIsMember ==
  ASSUME NEW n \in Nat, NEW S, S \subseteq 1 .. n, NEW i \in 1 .. Cardinality(S)
  PROVE  Csv!Nth(S, i) \in S
  <1>1. \E x \in S : Cardinality(UpToIn(S, x)) = i
    BY NthExists
  <1>2. \E x \in S : Cardinality({j \in S : j <= x}) = i
    BY <1>1, Zenon DEF UpToIn
  <1> QED
    BY <1>2, NthIs, Zenon

\* The i-th number from 1 to n is i.
LEMMA NthOfAll ==
  ASSUME NEW n \in Nat, NEW i \in 1 .. n
  PROVE  Csv!Nth(1 .. n, i) = i
  <1>2. ASSUME NEW x \in 1 .. n PROVE Cardinality({j \in 1 .. n : j <= x}) = x
    <2>1. {j \in 1 .. n : j <= x} = 1 .. x
      OBVIOUS
    <2>2. Cardinality(1 .. x) = x
      <3>1. x \in Nat
        OBVIOUS
      <3> QED
        BY <3>1, Interval
    <2> QED
      BY <2>1, <2>2, Zenon
  <1>3. Csv!Nth(1 .. n, i) = CHOOSE x \in 1 .. n : Cardinality({j \in 1 .. n : j <= x}) = i
    BY NthIs, Zenon
  <1>4. (CHOOSE x \in 1 .. n : Cardinality({j \in 1 .. n : j <= x}) = i) \in 1 .. n
        /\ Cardinality({m \in 1 .. n : m <= CHOOSE x \in 1 .. n : Cardinality({j \in 1 .. n : j <= x}) = i}) = i
    BY <1>2
  <1> QED
    BY <1>2, <1>3, <1>4

\* The tokens of a line are cells, none of them empty (strtok_r).
LEMMA TokensFacts ==
  ASSUME NEW V, NEW line \in Seq(V), "x" \in V
  PROVE  /\ Csv!Tokens(line) \in Seq(V)
         /\ \A c \in 1 .. Len(Csv!Tokens(line)) : Csv!Tokens(line)[c] # Csv!Blank
  <1> DEFINE F == {c \in 1 .. Len(line) : line[c] # Csv!Blank}
             d == Cardinality(F)
             t == [n \in 1 .. d |-> line[Csv!Nth(F, n)]]
  <1>0. Csv!Tokens(line) = IF Len(line) > 1 /\ file.sep # sep THEN <<"x">> ELSE t
    BY CsvCardinality, Zenon DEF Csv!Tokens
  <1>1. <<"x">> \in Seq(V) /\ Len(<<"x">>) = 1 /\ <<"x">>[1] # Csv!Blank
    <2>1. "x" # Csv!Blank
      BY Zenon DEF Csv!Blank
    <2> QED
      BY <2>1
  <1>2. Len(line) \in Nat
    OBVIOUS
  <1>3. F \in SUBSET (1 .. Len(line))
    OBVIOUS
  <1>4. ASSUME NEW n \in 1 .. d PROVE line[Csv!Nth(F, n)] \in V /\ line[Csv!Nth(F, n)] # Csv!Blank
    <2>1. Csv!Nth(F, n) \in F
      <3> HIDE DEF F
      <3> QED
        BY <1>2, <1>3, NthIsMember
    <2> QED
      BY <2>1
  <1>5. d \in Nat
    <2> HIDE DEF F
    <2> QED
      BY <1>2, <1>3, Interval
  <1>6. t \in Seq(V) /\ Len(t) = d /\ \A c \in 1 .. d : t[c] # Csv!Blank
    <2>1. t \in [1 .. d -> V] /\ \A c \in 1 .. d : t[c] # Csv!Blank
      <3> HIDE DEF F, d
      <3> QED
        BY <1>4
    <2> HIDE DEF t, d
    <2> QED
      BY <1>5, <2>1, SeqDef, LenProperties
  <1> HIDE DEF t, d
  <1> QED
    BY <1>0, <1>1, <1>6

\* A line without empty cells is its tokens.
LEMMA TokensOfFull ==
  ASSUME NEW V, NEW line \in Seq(V), Csv!Blank \notin V, file.sep = sep \/ Len(line) <= 1
  PROVE  Csv!Tokens(line) = line
  <1> DEFINE F == {c \in 1 .. Len(line) : line[c] # Csv!Blank}
             d == Cardinality(F)
             t == [n \in 1 .. d |-> line[Csv!Nth(F, n)]]
  <1>0. Csv!Tokens(line) = IF Len(line) > 1 /\ file.sep # sep THEN <<"x">> ELSE t
    BY CsvCardinality, Zenon DEF Csv!Tokens
  <1>1. Len(line) \in Nat
    OBVIOUS
  <1>2. \A c \in 1 .. Len(line) : line[c] # Csv!Blank
    <2>1. \A c \in 1 .. Len(line) : line[c] \in V
      OBVIOUS
    <2> QED
      BY <2>1, Zenon
  <1>3. F = 1 .. Len(line)
    BY <1>2
  <1>4. d = Len(line)
    BY <1>1, <1>3, Interval
  <1>5. \A n \in 1 .. Len(line) : Csv!Nth(F, n) = n
    BY <1>1, <1>3, NthOfAll
  <1>6. t = [n \in 1 .. Len(line) |-> line[n]]
    <2> HIDE DEF F, d
    <2> QED
      BY <1>4, <1>5
  <1>7. [n \in 1 .. Len(line) |-> line[n]] = line
    OBVIOUS
  <1> HIDE DEF t
  <1> QED
    BY <1>0, <1>1, <1>6, <1>7

\* What a cell of the table, of a row of the file, and of its header can be.
Stored   == Cells \cup {"0", "cut", "bytes"}
RowMarks == Stored \cup {Csv!Blank, "x"}
Marks    == RowMarks \cup ColumnNames

\* The file has lines of cells; only its first can have names.
CsvFile ==
    /\ file \in [sep : Csv!Separators, lines : Seq(Seq(Marks))]
    /\ \A l \in 2 .. Len(file.lines) : file.lines[l] \in Seq(RowMarks)

\* The table: columns up to MAX_BIN, with names that are not empty.
CsvData ==
    /\ sep \in Csv!Separators \cup {"none"} /\ names \in [1 .. MAX_BIN -> Marks] /\ cols \in 0 .. MAX_BIN
    /\ \A c \in 1 .. cols : names[c] # Csv!Blank
    /\ mem \in [1 .. MAX_BIN -> [1 .. MAX_BIN -> Stored]]
    /\ count \in Nat

\* The codes, places and counts of the process; a parse has not returned.
CsvScalars ==
    /\ err \in {"NO_ERROR", "INVALID_NUMBER"}
    /\ pc \in {"idle", "rows", "save"} /\ k \in Nat /\ ret \in {"none", "true", "false"}
    /\ calls \in 0 .. MaxCalls /\ crashes \in 0 .. MaxCrashes /\ start \in Nat
    /\ pc = "rows" => ret = "none"

\* The flags.
CsvBooleans == torn \in BOOLEAN /\ byHand \in BOOLEAN

\* A parse: a row is counted for each line behind it, the header was read, every row that
\* was stored fitted.
CsvReading ==
    pc = "rows" =>
        /\ k >= 2 /\ count = start + k - 2 /\ (k <= Len(file.lines) + 1 \/ k = 2)
        /\ file.lines # <<>> =>
              LET h == Csv!First(Csv!Tokens(file.lines[1]))
              IN  cols = Len(h) /\ \A c \in 1 .. cols : names[c] = h[c]
        /\ \A l \in 2 .. k - 1 : Csv!Tokens(file.lines[l]) # <<>> => start + l - 1 <= MAX_BIN

\* The columns and the rows of the table that was saved.
Width  == Len(saved.names)
Height == Len(saved.column[1])

\* Line l of the file is the one that was saved.
SavedWhole(l) ==
    /\ l = 1 => file.lines[l] = saved.names
    /\ l > 1 /\ Csv!IsInjective(saved.names) => file.lines[l] = [c \in 1 .. Width |-> saved.column[c][l - 1]]

\* A file that was saved is, line by line, the table that was saved; its last line may be cut.
\* While it is written the table is the one that is saved.
CsvSaved ==
    /\ ~byHand =>
         /\ file.sep = "comma"
         /\ saved.names \in Seq(Marks \ {Csv!Blank}) /\ Width \in 1 .. MAX_BIN /\ Height >= 1
         /\ \A c \in 1 .. Width : saved.column[c] \in Seq(Stored) /\ Len(saved.column[c]) = Height
         /\ Len(file.lines) <= Height + 1
         /\ ~torn => Len(file.lines) = Height + 1
         /\ \A l \in 1 .. Len(file.lines) : l < Len(file.lines) \/ ~torn \/ pc = "save" => SavedWhole(l)
    /\ pc = "save" =>
         /\ ~byHand /\ torn
         /\ cols = Width /\ Height = count /\ k = Len(file.lines) /\ k >= 1
         /\ saved.names = SubSeq(names, 1, cols)
         /\ \A c \in 1 .. cols : saved.column[c] = Csv!GetCSVData(names[c])

\* What is known of the bounds.
LEMMA CsvConstants == MAX_BIN \in Nat /\ MAX_BIN > 0 /\ MaxCalls \in Nat /\ MaxCrashes \in Nat
  BY MCAssumption DEF Csv!CsvAssumption

\* A cell of the table is never empty, nor a word that is no number.
LEMMA StoredAreNoMarks == Csv!Blank \notin Stored /\ "x" \notin Stored
  <1>1. {Csv!Blank, "x", "cut", "0", "bytes"} \cap (Cells \cup ColumnNames) = {}
    BY MCAssumption, Zenon DEF Csv!CsvAssumption
  <1>2. Csv!Blank \notin {"0", "cut", "bytes"}
    BY Zenon DEF Csv!Blank
  <1> QED
    BY <1>1, <1>2 DEF Stored

\* What is left of a line that is too long (file_parser.h:680-700): its first MAX_BIN tokens.
LEMMA FirstFacts ==
  ASSUME NEW V, NEW t \in Seq(V)
  PROVE  /\ Csv!First(t) \in Seq(V) /\ Len(Csv!First(t)) <= MAX_BIN /\ Len(Csv!First(t)) <= Len(t)
         /\ Len(t) <= MAX_BIN => Csv!First(t) = t
         /\ t # <<>> => Csv!First(t) # <<>>
         /\ \A c \in 1 .. Len(Csv!First(t)) : Csv!First(t)[c] = t[c]
  <1> DEFINE m == IF Len(t) < MAX_BIN THEN Len(t) ELSE MAX_BIN
  <1>1. Csv!First(t) = SubSeq(t, 1, m)
    BY DEF Csv!First
  <1>2. Len(t) \in Nat /\ m \in 0 .. Len(t) /\ m <= MAX_BIN /\ (Len(t) <= MAX_BIN => m = Len(t)) /\ (Len(t) # 0 => m # 0)
    BY CsvConstants
  <1> HIDE DEF m
  <1>3. Csv!First(t) \in Seq(V) /\ Len(Csv!First(t)) = m /\ \A c \in 1 .. m : Csv!First(t)[c] = t[c]
    BY <1>1, <1>2
  <1>4. t # <<>> => Len(t) # 0
    OBVIOUS
  <1>5. m # 0 => Csv!First(t) # <<>>
    BY <1>3
  <1>6. m = Len(t) => Csv!First(t) = t
    BY <1>3
  <1> QED
    BY <1>2, <1>3, <1>4, <1>5, <1>6

\* The row that is read.
LEMMA RowFacts ==
  ASSUME CsvFile, k \in 2 .. Len(file.lines)
  PROVE  /\ Csv!Tokens(file.lines[k]) \in Seq(RowMarks)
         /\ Csv!Row \in Seq(RowMarks) /\ Len(Csv!Row) <= MAX_BIN
         /\ \A c \in 1 .. Len(Csv!Row) : Csv!Row[c] # Csv!Blank
         /\ Len(Csv!Tokens(file.lines[k])) <= MAX_BIN => Csv!Row = Csv!Tokens(file.lines[k])
         /\ Csv!Tokens(file.lines[k]) # <<>> => Csv!Row # <<>>
  <1> DEFINE t == Csv!Tokens(file.lines[k])
  <1>1. file.lines[k] \in Seq(RowMarks) /\ "x" \in RowMarks
    BY DEF CsvFile, RowMarks
  <1>2. t \in Seq(RowMarks) /\ \A c \in 1 .. Len(t) : t[c] # Csv!Blank
    BY <1>1, TokensFacts
  <1>3. Csv!Row = Csv!First(t)
    BY DEF Csv!Row
  <1> HIDE DEF t
  <1>4. /\ Csv!First(t) \in Seq(RowMarks) /\ Len(Csv!First(t)) <= MAX_BIN /\ Len(Csv!First(t)) <= Len(t)
        /\ Len(t) <= MAX_BIN => Csv!First(t) = t
        /\ t # <<>> => Csv!First(t) # <<>>
        /\ \A c \in 1 .. Len(Csv!First(t)) : Csv!First(t)[c] = t[c]
    BY <1>2, FirstFacts
  <1>5. \A c \in 1 .. Len(Csv!First(t)) : Csv!First(t)[c] # Csv!Blank
    BY <1>2, <1>4
  <1> QED
    BY <1>2, <1>3, <1>4, <1>5 DEF t

\* The cells before the first that is no number.
LEMMA GoodFacts ==
  ASSUME NEW V, Csv!Row \in Seq(V)
  PROVE  /\ Csv!Good \in 0 .. Len(Csv!Row)
         /\ \A c \in 1 .. Csv!Good : Csv!Row[c] # "x"
         /\ (\A c \in 1 .. Len(Csv!Row) : Csv!Row[c] # "x") => Csv!Good = Len(Csv!Row)
  <1> DEFINE row == Csv!Row
             s == row \o <<"x">>
             I == {i \in 1 .. Len(s) : s[i] = "x"}
             g == CHOOSE x \in I : \A y \in I : x <= y
  <1>1. Csv!Good = (IF I # {} THEN g ELSE 0) - 1
    BY DEF Csv!Good, Csv!SelectInSeq, Csv!Min
  <1>2. Len(row) \in Nat /\ Len(s) = Len(row) + 1 /\ s[Len(row) + 1] = "x" /\ \A i \in 1 .. Len(row) : s[i] = row[i]
    <2>1. row \in Seq(V \cup {"x"}) /\ <<"x">> \in Seq(V \cup {"x"}) /\ Len(<<"x">>) = 1 /\ <<"x">>[1] = "x"
      BY SeqDef
    <2> HIDE DEF row
    <2> QED
      BY <2>1, ConcatProperties
  <1> HIDE DEF row, s
  <1>3. I \subseteq Nat /\ Len(row) + 1 \in I
    BY <1>2
  <1>4. g \in I /\ \A y \in I : g <= y
    <2>1. \E x \in I : \A y \in I : x <= y
      <3> HIDE DEF I
      <3> QED
        BY <1>3, HasLeast
    <2> QED
      BY <2>1
  <1>5. Csv!Good = g - 1
    BY <1>1, <1>3
  <1> HIDE DEF g
  <1>6. g \in 1 .. Len(row) + 1 /\ \A c \in 1 .. g - 1 : row[c] # "x"
    BY <1>2, <1>3, <1>4
  <1>7. (\A c \in 1 .. Len(row) : row[c] # "x") => g = Len(row) + 1
    BY <1>2, <1>3, <1>4, <1>6
  <1> QED
    BY <1>2, <1>5, <1>6, <1>7 DEF row

\* What a row that is read leaves in the table.
LEMMA StoreFacts ==
  ASSUME CsvFile, CsvData, k \in 2 .. Len(file.lines), ~Csv!TooMany, Csv!StoreCells
  PROVE  /\ mem' \in [1 .. MAX_BIN -> [1 .. MAX_BIN -> Stored]]
         /\ \A r \in 1 .. MAX_BIN : r # count + 1 => mem'[r] = mem[r]
         /\ Csv!Row # <<>> => count + 1 \in 1 .. MAX_BIN /\ \A c \in 1 .. Csv!Good : mem'[count + 1][c] = Csv!Row[c]
  <1>1. mem \in [1 .. MAX_BIN -> [1 .. MAX_BIN -> Stored]] /\ count \in Nat
    BY DEF CsvData
  <1>2. CASE Csv!Row = <<>>
    <2>1. mem' = mem
      BY <1>2 DEF Csv!StoreCells
    <2> QED
      BY <1>1, <1>2, <2>1
  <1>3. CASE Csv!Row # <<>>
    <2> DEFINE new == [c \in 1 .. MAX_BIN |-> IF c <= Csv!Good THEN Csv!Row[c] ELSE mem[count + 1][c]]
    <2>1. mem' = [mem EXCEPT ![count + 1] = new]
      BY <1>3, Zenon DEF Csv!StoreCells
    <2>2. count + 1 \in 1 .. MAX_BIN
      BY <1>1, <1>3, CsvConstants DEF Csv!TooMany
    <2>3. /\ Csv!Row \in Seq(RowMarks) /\ Len(Csv!Row) <= MAX_BIN
          /\ \A c \in 1 .. Len(Csv!Row) : Csv!Row[c] # Csv!Blank
          /\ Csv!Good \in 0 .. Len(Csv!Row) /\ \A c \in 1 .. Csv!Good : Csv!Row[c] # "x"
      BY RowFacts, GoodFacts
    <2>4. \A c \in 1 .. Csv!Good : Csv!Row[c] \in Stored /\ c \in 1 .. MAX_BIN
      BY <2>3, CsvConstants DEF RowMarks
    <2>5. new \in [1 .. MAX_BIN -> Stored] /\ \A c \in 1 .. Csv!Good : new[c] = Csv!Row[c]
      <3>1. ASSUME NEW c \in 1 .. MAX_BIN PROVE new[c] \in Stored
        <4>1. CASE c <= Csv!Good
          BY <2>3, <2>4, <4>1
        <4>2. CASE ~(c <= Csv!Good)
          BY <1>1, <2>2, <4>2
        <4> QED
          BY <4>1, <4>2
      <3>2. \A c \in 1 .. Csv!Good : new[c] = Csv!Row[c]
        BY <2>3, <2>4
      <3> QED
        BY <3>1, <3>2
    <2> HIDE DEF new
    <2> QED
      BY <1>1, <2>1, <2>2, <2>5
  <1> QED
    BY <1>2, <1>3

\* The inductive invariant of CsvTable.
CsvInv ==
    /\ CsvFile /\ CsvData /\ CsvScalars /\ CsvBooleans
    /\ CsvReading /\ CsvSaved /\ Csv!FullRowsAreRead

\* A sequence of at most n elements of S is a sequence over S.
LEMMA UpToIsSeq == ASSUME NEW S, NEW n \in Nat PROVE Csv!UpTo(S, n) \subseteq Seq(S) /\ UpTo(S, n) \subseteq Seq(S)
  <1>1. ASSUME NEW m \in 0 .. n PROVE [1 .. m -> S] \subseteq Seq(S)
    <2>1. m \in Nat
      OBVIOUS
    <2> QED
      BY <2>1, SeqDef
  <1>2. Csv!UpTo(S, n) \subseteq Seq(S)
    BY <1>1, Zenon DEF Csv!UpTo
  <1>3. UpTo(S, n) \subseteq Seq(S)
    BY <1>1, Zenon DEF UpTo
  <1> QED
    BY <1>2, <1>3

\* A sequence over a set is one over a larger set.
LEMMA SeqMono == ASSUME NEW S, NEW T, S \subseteq T PROVE Seq(S) \subseteq Seq(T)
  OBVIOUS

\* A header and rows are the lines of a file.
LEMMA FileOfLines ==
  ASSUME NEW s \in Csv!Separators, NEW h \in Seq(Marks), NEW rows \in Seq(Seq(RowMarks)),
         NEW f, f = [sep |-> s, lines |-> <<h>> \o rows]
  PROVE  /\ f \in [sep : Csv!Separators, lines : Seq(Seq(Marks))]
         /\ \A l \in 2 .. Len(f.lines) : f.lines[l] \in Seq(RowMarks)
  <1>1. Seq(RowMarks) \subseteq Seq(Marks)
    <2>1. RowMarks \subseteq Marks
      BY Zenon DEF Marks
    <2> QED
      BY <2>1
  <1>2. rows \in Seq(Seq(Marks)) /\ Len(rows) \in Nat
    <2>1. \A l \in 1 .. Len(rows) : rows[l] \in Seq(RowMarks)
      OBVIOUS
    <2> QED
      BY <1>1, <2>1
  <1>3. <<h>> \in Seq(Seq(Marks)) /\ Len(<<h>>) = 1
    OBVIOUS
  <1>4. <<h>> \o rows \in Seq(Seq(Marks)) /\ Len(<<h>> \o rows) = 1 + Len(rows)
        /\ \A l \in 1 .. 1 + Len(rows) : (<<h>> \o rows)[l] = IF l <= 1 THEN <<h>>[l] ELSE rows[l - 1]
    BY <1>2, <1>3, ConcatProperties
  <1>5. ASSUME NEW l \in 2 .. Len(f.lines) PROVE f.lines[l] \in Seq(RowMarks)
    <2>1. f.lines = <<h>> \o rows
      OBVIOUS
    <2>2. l \in 2 .. 1 + Len(rows)
      BY <1>4, <2>1
    <2>3. f.lines[l] = rows[l - 1] /\ l - 1 \in 1 .. Len(rows)
      BY <1>2, <1>4, <2>1, <2>2
    <2> QED
      BY <2>3
  <1> QED
    BY <1>4, <1>5

\* A file as CsvFile says.
IsCsvFile(f) ==
    /\ f \in [sep : Csv!Separators, lines : Seq(Seq(Marks))]
    /\ \A l \in 2 .. Len(f.lines) : f.lines[l] \in Seq(RowMarks)

\* The invariant holds when a process starts, whatever such file was there before.
LEMMA CsvInitHolds ==
  ASSUME NEW files, \A f \in files : IsCsvFile(f), Csv!InitWith(files)
  PROVE  CsvInv
  <1>1. /\ file \in files
        /\ sep = "none" /\ names = [c \in 1 .. MAX_BIN |-> Csv!Blank] /\ cols = 0
        /\ mem = [r \in 1 .. MAX_BIN |-> [c \in 1 .. MAX_BIN |-> "0"]] /\ count = 0
        /\ err = "NO_ERROR" /\ pc = "idle" /\ k = 0 /\ ret = "none" /\ start = 0
        /\ calls = 0 /\ crashes = 0
    BY Zenon DEF Csv!InitWith, Csv!NoRow
  <1>2. torn = FALSE /\ byHand = TRUE
    BY Zenon DEF Csv!InitWith
  <1>3. CsvFile
    BY <1>1, Zenon DEF CsvFile, IsCsvFile
  <1>4. CsvData
    BY <1>1, CsvConstants DEF CsvData, Marks, RowMarks, Stored
  <1>5. CsvScalars
    BY <1>1, CsvConstants DEF CsvScalars
  <1>6. CsvBooleans
    BY <1>2, Zenon DEF CsvBooleans
  <1>7. CsvReading
    BY <1>1 DEF CsvReading
  <1>8. CsvSaved
    <2>1. ~(~byHand) /\ pc # "save"
      BY <1>1, <1>2
    <2> QED
      BY <2>1, Zenon DEF CsvSaved
  <1>9. Csv!FullRowsAreRead
    BY <1>1 DEF Csv!FullRowsAreRead
  <1> QED
    BY <1>3, <1>4, <1>5, <1>6, <1>7, <1>8, <1>9, Zenon DEF CsvInv

\* The files of a set of headers and rows.
LEMMA FilesOf ==
  ASSUME NEW S, NEW H, NEW R
  PROVE  /\ \A f \in {Csv!WithRows(s, h, rows) : s \in S, h \in H, rows \in R} :
                \E s \in S, h \in H, rows \in R : f = Csv!WithRows(s, h, rows)
         /\ \A f \in {Csv!WithRows("comma", h, rows) : h \in H, rows \in R} :
                \E h \in H, rows \in R : f = Csv!WithRows("comma", h, rows)
  OBVIOUS

\* The files that CsvTable, and the scenes, start from are such files.
LEMMA HandFilesAreCsv == \A f \in Csv!HandFiles : IsCsvFile(f)
  <1> SUFFICES ASSUME NEW f \in Csv!HandFiles PROVE IsCsvFile(f)
    OBVIOUS
  <1>0. MAX_BIN + 1 \in Nat /\ MaxRows \in Nat
    BY MCAssumption DEF Csv!CsvAssumption
  <1>1. PICK s \in Csv!Separators, h \in Csv!UpTo(ColumnNames, MAX_BIN + 1) \ {<<>>},
             rows \in Csv!UpTo(Csv!UpTo(Cells \cup {Csv!Blank, "x"}, MAX_BIN + 1), MaxRows - 1) :
          f = Csv!WithRows(s, h, rows)
    <2> DEFINE H == Csv!UpTo(ColumnNames, MAX_BIN + 1) \ {<<>>}
               R == Csv!UpTo(Csv!UpTo(Cells \cup {Csv!Blank, "x"}, MAX_BIN + 1), MaxRows - 1)
    <2>1. Csv!HandFiles = {Csv!WithRows(s, h, rows) : s \in Csv!Separators, h \in H, rows \in R}
      BY DEF Csv!HandFiles
    <2> HIDE DEF H, R
    <2>2. \E s \in Csv!Separators, h \in H, rows \in R : f = Csv!WithRows(s, h, rows)
      BY <2>1, FilesOf
    <2> QED
      BY <2>2, Zenon DEF H, R
  <1>2. h \in Seq(Marks)
    <2>1. h \in Seq(ColumnNames)
      BY <1>0, UpToIsSeq
    <2>2. ColumnNames \subseteq Marks
      BY Zenon DEF Marks
    <2> QED
      BY <2>1, <2>2, SeqMono, Zenon
  <1>3. Csv!UpTo(Cells \cup {Csv!Blank, "x"}, MAX_BIN + 1) \subseteq Seq(RowMarks)
    <2>1. Csv!UpTo(Cells \cup {Csv!Blank, "x"}, MAX_BIN + 1) \subseteq Seq(Cells \cup {Csv!Blank, "x"})
      BY <1>0, UpToIsSeq
    <2>2. Cells \cup {Csv!Blank, "x"} \subseteq RowMarks
      BY Zenon DEF RowMarks, Stored
    <2> QED
      BY <2>1, <2>2, SeqMono, Zenon
  <1>4. rows \in Seq(Seq(RowMarks))
    <2> DEFINE R == Csv!UpTo(Cells \cup {Csv!Blank, "x"}, MAX_BIN + 1)
    <2>1. rows \in Csv!UpTo(R, MaxRows - 1)
      OBVIOUS
    <2> HIDE DEF R
    <2>2. PICK m \in 0 .. MaxRows - 1 : rows \in [1 .. m -> R]
      BY <2>1, Zenon DEF Csv!UpTo
    <2>3. m \in Nat
      BY <1>0
    <2>4. rows \in Seq(R)
      BY <2>2, <2>3, SeqDef
    <2> QED
      BY <1>3, <2>4, SeqMono, Zenon DEF R
  <1> QED
    BY <1>1, <1>2, <1>4, FileOfLines, Zenon DEF IsCsvFile, Csv!WithRows

\* Those of the scene "table".
LEMMA HandRowsAreCsv == \A f \in HandRows : IsCsvFile(f)
  <1> SUFFICES ASSUME NEW f \in HandRows PROVE IsCsvFile(f)
    OBVIOUS
  <1>0. MAX_BIN + 1 \in Nat /\ MaxRows \in Nat
    BY MCAssumption DEF Csv!CsvAssumption
  <1>1. PICK h \in UpTo({"n"}, MAX_BIN + 1) \ {<<>>},
             rows \in UpTo(UpTo({"1", Csv!Blank, "x"}, MAX_BIN + 1), MaxRows - 1) :
          f = Csv!WithRows("comma", h, rows)
    <2> DEFINE H == UpTo({"n"}, MAX_BIN + 1) \ {<<>>}
               R == UpTo(UpTo({"1", Csv!Blank, "x"}, MAX_BIN + 1), MaxRows - 1)
    <2>1. HandRows = {Csv!WithRows("comma", h, rows) : h \in H, rows \in R}
      BY DEF HandRows
    <2> HIDE DEF H, R
    <2>2. \E h \in H, rows \in R : f = Csv!WithRows("comma", h, rows)
      BY <2>1, FilesOf
    <2> QED
      BY <2>2, Zenon DEF H, R
  <1>2. h \in Seq(Marks)
    <2>1. h \in Seq({"n"})
      BY <1>0, UpToIsSeq
    <2>2. {"n"} \subseteq Marks
      BY MCAssumption, Zenon DEF Marks
    <2> QED
      BY <2>1, <2>2, SeqMono, Zenon
  <1>3. UpTo({"1", Csv!Blank, "x"}, MAX_BIN + 1) \subseteq Seq(RowMarks)
    <2>1. UpTo({"1", Csv!Blank, "x"}, MAX_BIN + 1) \subseteq Seq({"1", Csv!Blank, "x"})
      BY <1>0, UpToIsSeq
    <2>2. {"1", Csv!Blank, "x"} \subseteq RowMarks
      BY MCAssumption, Zenon DEF RowMarks, Stored
    <2> QED
      BY <2>1, <2>2, SeqMono, Zenon
  <1>4. rows \in Seq(Seq(RowMarks))
    <2> DEFINE R == UpTo({"1", Csv!Blank, "x"}, MAX_BIN + 1)
    <2>1. rows \in UpTo(R, MaxRows - 1)
      OBVIOUS
    <2> HIDE DEF R
    <2>2. PICK m \in 0 .. MaxRows - 1 : rows \in [1 .. m -> R]
      BY <2>1, Zenon DEF UpTo
    <2>3. m \in Nat
      BY <1>0
    <2>4. rows \in Seq(R)
      BY <2>2, <2>3, SeqDef
    <2> QED
      BY <1>3, <2>4, SeqMono, Zenon DEF R
  <1>5. "comma" \in Csv!Separators
    BY DEF Csv!Separators
  <1> QED
    BY <1>1, <1>2, <1>4, <1>5, FileOfLines, Zenon DEF IsCsvFile, Csv!WithRows

\* Those of the scene "rows".
LEMMA HeadersAreCsv == \A f \in Headers : IsCsvFile(f)
  <1> SUFFICES ASSUME NEW f \in Headers PROVE IsCsvFile(f)
    OBVIOUS
  <1>1. PICK s \in Csv!Separators, h \in {<<"n">>, <<"n", "m">>} : f = [sep |-> s, lines |-> <<h>>]
    BY DEF Headers
  <1>2. h \in Seq(Marks)
    <2>1. "n" \in Marks /\ "m" \in Marks
      BY MCAssumption, Zenon DEF Marks
    <2>2. \A a, b \in Marks : <<a>> \in Seq(Marks) /\ <<a, b>> \in Seq(Marks)
      OBVIOUS
    <2> QED
      BY <2>1, <2>2, Zenon
  <1>3. f \in [sep : Csv!Separators, lines : Seq(Seq(Marks))] /\ f.lines = <<h>>
    BY <1>1, <1>2
  <1>4. Len(f.lines) = 1
    BY <1>3
  <1>5. \A l \in 2 .. Len(f.lines) : FALSE
    BY <1>4
  <1> QED
    BY <1>3, <1>5, Zenon DEF IsCsvFile

\* A step of CsvTable, or of another part of the program.
CsvStep == Csv!Next \/ UNCHANGED Csv!vars

\* A step that leaves the file and what was saved alone, and is not of a save.
CsvRests ==
    /\ file' = file /\ saved' = saved /\ torn' = torn /\ byHand' = byHand
    /\ pc # "save" /\ pc' # "save"

\* Only ParamSave and a crash touch the file or what was saved.
LEMMA CsvKinds ==
  ASSUME CsvStep
  PROVE  \/ UNCHANGED Csv!vars \/ CsvRests
         \/ Csv!SaveHeader \/ Csv!SaveRow \/ Csv!SaveClose \/ Csv!Crash
  <1> USE DEF Csv!header, Csv!data, Csv!history, Csv!Return, Csv!Idle, Csv!InRow
  <1>a. "rows" # "save" /\ "idle" # "save"
    OBVIOUS
  <1>1. ASSUME NEW s, Csv!InitCSV(s) PROVE CsvRests
    BY <1>a, <1>1, Zenon DEF Csv!InitCSV, CsvRests
  <1>2. ASSUME NEW row, Csv!AddRowCSV(row) PROVE CsvRests
    BY <1>a, <1>2, Zenon DEF Csv!AddRowCSV, CsvRests
  <1>3. ASSUME Csv!ParseCannotOpen PROVE CsvRests
    BY <1>a, <1>3, Zenon DEF Csv!ParseCannotOpen, CsvRests
  <1>4. ASSUME Csv!ParseHeader PROVE CsvRests
    BY <1>a, <1>4, Zenon DEF Csv!ParseHeader, CsvRests
  <1>5. ASSUME Csv!ParseRow PROVE CsvRests
    BY <1>a, <1>5, Zenon DEF Csv!ParseRow, CsvRests
  <1>6. ASSUME Csv!ParseRowFails PROVE CsvRests
    BY <1>a, <1>6, Zenon DEF Csv!ParseRowFails, CsvRests
  <1>7. ASSUME Csv!ParseEnd PROVE CsvRests
    BY <1>a, <1>7, Zenon DEF Csv!ParseEnd, CsvRests
  <1>8. ASSUME Csv!SaveRefused PROVE CsvRests
    BY <1>a, <1>8, Zenon DEF Csv!SaveRefused, CsvRests
  <1> QED
    BY <1>1, <1>2, <1>3, <1>4, <1>5, <1>6, <1>7, <1>8, Zenon DEF Csv!Next, CsvStep

\* What a row of the table is when it is written.
LEMMA CellsAreStored ==
  ASSUME CsvData, NEW r \in Nat \ {0}, NEW c \in 1 .. cols
  PROVE  Csv!Cell(r, c) \in Stored
  <1>1. c \in 1 .. MAX_BIN
    BY CsvConstants DEF CsvData
  <1>2. CASE r <= MAX_BIN
    <2>1. r \in 1 .. MAX_BIN
      BY <1>2, CsvConstants
    <2>2. mem[r][c] \in Stored
      BY <1>1, <2>1, Zenon DEF CsvData
    <2> QED
      BY <1>2, <2>2, Zenon DEF Csv!Cell
  <1>3. CASE ~(r <= MAX_BIN)
    <2>1. "bytes" \in Stored
      BY Zenon DEF Stored
    <2> QED
      BY <1>3, <2>1, Zenon DEF Csv!Cell
  <1> QED
    BY <1>2, <1>3, Zenon

\* The header that is written has names that are not empty.
LEMMA HeaderFacts ==
  ASSUME CsvData
  PROVE  /\ SubSeq(names, 1, cols) \in Seq(Marks \ {Csv!Blank}) /\ Len(SubSeq(names, 1, cols)) = cols
         /\ \A c \in 1 .. cols : SubSeq(names, 1, cols)[c] = names[c]
  <1>1. MAX_BIN \in Nat /\ cols \in 0 .. MAX_BIN /\ names \in [1 .. MAX_BIN -> Marks] /\ \A c \in 1 .. cols : names[c] # Csv!Blank
    BY CsvConstants DEF CsvData
  <1>2. names \in Seq(Marks) /\ Len(names) = MAX_BIN
    BY <1>1, SeqDef, LenProperties
  <1>3. Len(SubSeq(names, 1, cols)) = cols /\ \A c \in 1 .. cols : SubSeq(names, 1, cols)[c] = names[c]
    BY <1>1, <1>2, SubSeqProperties
  <1>4. SubSeq(names, 1, cols) \in Seq(Marks)
    BY <1>1, <1>2, SubSeqProperties
  <1>5. \A c \in 1 .. cols : SubSeq(names, 1, cols)[c] \in Marks \ {Csv!Blank}
    <2>1. \A c \in 1 .. cols : names[c] \in Marks
      BY <1>1
    <2> QED
      BY <1>1, <1>3, <2>1, Zenon
  <1>6. SubSeq(names, 1, cols) \in Seq(Marks \ {Csv!Blank})
    <2> DEFINE s == SubSeq(names, 1, cols)
    <2>1. s \in Seq(Marks) /\ \A c \in 1 .. Len(s) : s[c] \in Marks \ {Csv!Blank}
      BY <1>3, <1>4, <1>5
    <2> HIDE DEF s
    <2>2. s \in [1 .. Len(s) -> Marks \ {Csv!Blank}] /\ Len(s) \in Nat
      BY <2>1, LenProperties
    <2>3. \A T : [1 .. Len(s) -> T] \subseteq Seq(T)
      BY <2>2, SeqDef
    <2> QED
      BY <2>2, <2>3, Zenon DEF s
  <1> QED
    BY <1>3, <1>6

\* Adding, cutting and replacing lines leaves lines.
LEMMA LinesFit ==
  ASSUME NEW V, NEW f \in Seq(V), NEW line \in V
  PROVE  /\ Append(f, line) \in Seq(V) /\ Len(Append(f, line)) = Len(f) + 1
         /\ \A i \in 1 .. Len(f) : Append(f, line)[i] = f[i]
         /\ Append(f, line)[Len(f) + 1] = line
         /\ \A n \in 0 .. Len(f) :
               /\ SubSeq(f, 1, n) \in Seq(V) /\ Len(SubSeq(f, 1, n)) = n
               /\ \A i \in 1 .. n : SubSeq(f, 1, n)[i] = f[i]
  <1>1. ASSUME NEW n \in 0 .. Len(f)
        PROVE  /\ SubSeq(f, 1, n) \in Seq(V) /\ Len(SubSeq(f, 1, n)) = n
               /\ \A i \in 1 .. n : SubSeq(f, 1, n)[i] = f[i]
    OBVIOUS
  <1> QED
    BY <1>1

\* A part of a line has the cells of the line, and perhaps one that was cut.
LEMMA RemainsOfLine ==
  ASSUME NEW V, NEW line \in Seq(V), "cut" \in V, NEW part \in Csv!Remains(line)
  PROVE  part \in Seq(V)
  <1>1. PICK n \in 1 .. Len(line) : part = SubSeq(line, 1, n) \/ part = SubSeq(line, 1, n - 1) \o <<"cut">>
    BY Zenon DEF Csv!Remains
  <1>2. SubSeq(line, 1, n) \in Seq(V) /\ SubSeq(line, 1, n - 1) \in Seq(V)
    <2>1. Len(line) \in Nat /\ n \in 0 .. Len(line) /\ n - 1 \in 0 .. Len(line)
      OBVIOUS
    <2>2. V # {}
      OBVIOUS
    <2> QED
      BY <2>1, LinesFit
  <1>3. <<"cut">> \in Seq(V)
    OBVIOUS
  <1>4. SubSeq(line, 1, n - 1) \o <<"cut">> \in Seq(V)
    BY <1>2, <1>3, ConcatProperties
  <1> QED
    BY <1>1, <1>2, <1>4

\* What a crash leaves of the file: lines that are whole, and perhaps a part of the next.
LEMMA CsvCrashLeaves ==
  ASSUME CsvFile, Csv!Crash
  PROVE  /\ pc # "save" => file' = file
         /\ file'.sep = file.sep /\ Len(file'.lines) <= Len(file.lines)
         /\ \A l \in 1 .. Len(file'.lines) :
               \/ file'.lines[l] = file.lines[l]
               \/ l = Len(file'.lines) /\ file'.lines[l] \in Csv!Remains(file.lines[l])
         /\ file' \in [sep : Csv!Separators, lines : Seq(Seq(Marks))]
  <1>1. file \in [sep : Csv!Separators, lines : Seq(Seq(Marks))] /\ file.lines \in Seq(Seq(Marks)) /\ Len(file.lines) \in Nat
    BY DEF CsvFile
  <1>2. CASE pc # "save"
    <2>1. file' = file
      BY <1>2, Zenon DEF Csv!Crash
    <2> QED
      BY <1>1, <2>1
  <1>3. CASE pc = "save"
    <2>1. PICK n \in 0 .. Len(file.lines) :
             \/ file' = [file EXCEPT !.lines = SubSeq(@, 1, n)]
             \/ /\ n < Len(file.lines)
                /\ \E part \in Csv!Remains(file.lines[n + 1]) :
                      file' = [file EXCEPT !.lines = Append(SubSeq(@, 1, n), part)]
      BY <1>3, Zenon DEF Csv!Crash
    <2> DEFINE cut == SubSeq(file.lines, 1, n)
    <2>2. cut \in Seq(Seq(Marks)) /\ Len(cut) = n /\ \A i \in 1 .. n : cut[i] = file.lines[i]
      <3>1. <<>> \in Seq(Marks)
        OBVIOUS
      <3> QED
        BY <1>1, <3>1, LinesFit
    <2>3. CASE file' = [file EXCEPT !.lines = SubSeq(@, 1, n)]
      <3>1. file' = [file EXCEPT !.lines = cut]
        BY <2>3
      <3> HIDE DEF cut
      <3>2. file'.lines = cut /\ file'.sep = file.sep /\ file' \in [sep : Csv!Separators, lines : Seq(Seq(Marks))]
        BY <1>1, <2>2, <3>1
      <3>3. \A l \in 1 .. Len(file'.lines) : file'.lines[l] = file.lines[l]
        BY <2>2, <3>2
      <3> QED
        BY <1>3, <2>2, <3>2, <3>3
    <2>4. ASSUME n < Len(file.lines), NEW part \in Csv!Remains(file.lines[n + 1]),
                 file' = [file EXCEPT !.lines = Append(SubSeq(@, 1, n), part)]
          PROVE  /\ file'.sep = file.sep /\ Len(file'.lines) <= Len(file.lines)
                 /\ \A l \in 1 .. Len(file'.lines) :
                       \/ file'.lines[l] = file.lines[l]
                       \/ l = Len(file'.lines) /\ file'.lines[l] \in Csv!Remains(file.lines[l])
                 /\ file' \in [sep : Csv!Separators, lines : Seq(Seq(Marks))]
      <3>1. file' = [file EXCEPT !.lines = Append(cut, part)]
        BY <2>4
      <3>2. part \in Seq(Marks)
        <4>1. n + 1 \in 1 .. Len(file.lines)
          BY <1>1, <2>4
        <4>2. file.lines[n + 1] \in Seq(Marks) /\ "cut" \in Marks
          BY <1>1, <4>1 DEF Marks, RowMarks, Stored
        <4> QED
          BY <4>2, RemainsOfLine
      <3> HIDE DEF cut
      <3>3. /\ Append(cut, part) \in Seq(Seq(Marks)) /\ Len(Append(cut, part)) = n + 1
            /\ Append(cut, part)[n + 1] = part /\ \A i \in 1 .. n : Append(cut, part)[i] = cut[i]
        BY <2>2, <3>2, LinesFit
      <3>4. file'.lines = Append(cut, part) /\ file'.sep = file.sep
            /\ file' \in [sep : Csv!Separators, lines : Seq(Seq(Marks))]
        BY <1>1, <3>1, <3>3
      <3>5. ASSUME NEW l \in 1 .. Len(file'.lines)
            PROVE  \/ file'.lines[l] = file.lines[l]
                   \/ l = Len(file'.lines) /\ file'.lines[l] \in Csv!Remains(file.lines[l])
        <4>1. l \in 1 .. n \/ l = n + 1
          BY <1>1, <3>3, <3>4
        <4>2. CASE l \in 1 .. n
          BY <2>2, <3>3, <3>4, <4>2
        <4>3. CASE l = n + 1
          BY <2>4, <3>3, <3>4, <4>3
        <4> QED
          BY <4>1, <4>2, <4>3
      <3>6. Len(file'.lines) <= Len(file.lines)
        BY <1>1, <2>4, <3>3, <3>4
      <3> QED
        BY <3>4, <3>5, <3>6, Zenon
    <2> QED
      BY <1>3, <2>1, <2>3, <2>4
  <1> QED
    BY <1>2, <1>3

\* The file stays one of lines of cells.
LEMMA CsvFileStep ==
  ASSUME CsvInv, CsvStep
  PROVE  CsvFile'
  <1>1. /\ file \in [sep : Csv!Separators, lines : Seq(Seq(Marks))] /\ file.lines \in Seq(Seq(Marks))
        /\ \A l \in 2 .. Len(file.lines) : file.lines[l] \in Seq(RowMarks)
        /\ Len(file.lines) \in Nat
    BY DEF CsvInv, CsvFile
  <1>2. ASSUME file' = file PROVE CsvFile'
    BY <1>1, <1>2, Zenon DEF CsvFile
  <1>3. CASE CsvRests
    BY <1>2, <1>3, Zenon DEF CsvRests
  <1>4. CASE UNCHANGED Csv!vars
    BY <1>2, <1>4, Zenon DEF Csv!vars
  <1>5. CASE Csv!SaveClose
    BY <1>2, <1>5, Zenon DEF Csv!SaveClose
  <1>6. CASE Csv!SaveHeader
    <2> DEFINE h == SubSeq(names, 1, cols)
    <2>1. file' = [sep |-> "comma", lines |-> <<h>>]
      BY <1>6, Zenon DEF Csv!SaveHeader
    <2>2. h \in Seq(Marks \ {Csv!Blank})
      BY HeaderFacts DEF CsvInv
    <2>3. h \in Seq(Marks)
      <3> HIDE DEF h
      <3>1. Marks \ {Csv!Blank} \subseteq Marks
        OBVIOUS
      <3> QED
        BY <2>2, <3>1, SeqMono, Zenon
    <2> HIDE DEF h
    <2>4. file'.lines = <<h>> /\ file'.sep = "comma" /\ file' \in [sep : Csv!Separators, lines : Seq(Seq(Marks))]
      BY <2>1, <2>3 DEF Csv!Separators
    <2>5. \A l \in 2 .. Len(file'.lines) : FALSE
      BY <2>4
    <2> QED
      BY <2>4, <2>5, Zenon DEF CsvFile
  <1>7. CASE Csv!SaveRow
    <2> DEFINE row == [c \in 1 .. cols |-> Csv!Cell(k, c)]
    <2>1. file' = [file EXCEPT !.lines = Append(@, row)] /\ pc = "save"
      BY <1>7, Zenon DEF Csv!SaveRow
    <2>2. row \in Seq(RowMarks)
      <3>1. k \in Nat \ {0} /\ cols \in Nat
        <4>1. k >= 1 /\ k \in Nat
          BY <2>1 DEF CsvInv, CsvSaved, CsvScalars
        <4> QED
          BY <4>1, CsvConstants DEF CsvInv, CsvData
      <3>2. \A c \in 1 .. cols : Csv!Cell(k, c) \in RowMarks
        BY <3>1, CellsAreStored DEF CsvInv, RowMarks
      <3> QED
        BY <3>1, <3>2, SeqDef
    <2> HIDE DEF row
    <2>3. row \in Seq(Marks)
      <3>1. RowMarks \subseteq Marks
        BY Zenon DEF Marks
      <3> QED
        BY <2>2, <3>1, SeqMono, Zenon
    <2>4. file' = [file EXCEPT !.lines = Append(file.lines, row)]
      BY <2>1
    <2>5. /\ Append(file.lines, row) \in Seq(Seq(Marks)) /\ Len(Append(file.lines, row)) = Len(file.lines) + 1
          /\ \A i \in 1 .. Len(file.lines) : Append(file.lines, row)[i] = file.lines[i]
          /\ Append(file.lines, row)[Len(file.lines) + 1] = row
      BY <1>1, <2>3, LinesFit
    <2>6. file'.lines = Append(file.lines, row) /\ file' \in [sep : Csv!Separators, lines : Seq(Seq(Marks))]
      BY <1>1, <2>4, <2>5
    <2>7. ASSUME NEW l \in 2 .. Len(file'.lines) PROVE file'.lines[l] \in Seq(RowMarks)
      <3>1. l \in 2 .. Len(file.lines) \/ l = Len(file.lines) + 1
        BY <1>1, <2>5, <2>6
      <3>2. CASE l \in 2 .. Len(file.lines)
        <4>1. file'.lines[l] = file.lines[l]
          BY <2>5, <2>6, <3>2
        <4> QED
          BY <1>1, <3>2, <4>1
      <3>3. CASE l = Len(file.lines) + 1
        BY <2>2, <2>5, <2>6, <3>3
      <3> QED
        BY <3>1, <3>2, <3>3
    <2> QED
      BY <2>6, <2>7, Zenon DEF CsvFile
  <1>8. CASE Csv!Crash
    <2>1. /\ file' \in [sep : Csv!Separators, lines : Seq(Seq(Marks))]
          /\ Len(file'.lines) <= Len(file.lines)
          /\ \A l \in 1 .. Len(file'.lines) :
                file'.lines[l] = file.lines[l] \/ file'.lines[l] \in Csv!Remains(file.lines[l])
      BY <1>8, CsvCrashLeaves DEF CsvInv
    <2>2. Len(file'.lines) \in Nat
      BY <2>1
    <2>3. ASSUME NEW l \in 2 .. Len(file'.lines) PROVE file'.lines[l] \in Seq(RowMarks)
      <3>1. l \in 2 .. Len(file.lines) /\ l \in 1 .. Len(file'.lines)
        BY <1>1, <2>1, <2>2
      <3>2. file.lines[l] \in Seq(RowMarks) /\ "cut" \in RowMarks
        BY <1>1, <3>1, Zenon DEF RowMarks, Stored
      <3> QED
        BY <2>1, <3>1, <3>2, RemainsOfLine
    <2> QED
      BY <2>1, <2>3, Zenon DEF CsvFile
  <1> QED
    BY <1>3, <1>4, <1>5, <1>6, <1>7, <1>8, CsvKinds

\* The header that is read has names that are not empty.
LEMMA ReadHeaderFacts ==
  ASSUME CsvFile,
         NEW h \in IF file.lines = <<>> THEN {<<>>, <<"bytes">>} ELSE {Csv!First(Csv!Tokens(file.lines[1]))}
  PROVE  h \in Seq(Marks) /\ Len(h) \in 0 .. MAX_BIN /\ \A c \in 1 .. Len(h) : h[c] # Csv!Blank
  <1>1. CASE file.lines = <<>>
    <2>1. "bytes" # Csv!Blank
      BY Zenon DEF Csv!Blank
    <2>2. "bytes" \in Marks
      BY Zenon DEF Marks, RowMarks, Stored
    <2>3. h = <<>> \/ h = <<"bytes">>
      BY <1>1
    <2>4. <<>> \in Seq(Marks) /\ Len(<<>>) = 0 /\ <<"bytes">> \in Seq(Marks) /\ Len(<<"bytes">>) = 1 /\ <<"bytes">>[1] = "bytes"
      BY <2>2
    <2>5. 0 \in 0 .. MAX_BIN /\ 1 \in 0 .. MAX_BIN /\ 1 .. 0 = {} /\ 1 .. 1 = {1}
      BY CsvConstants
    <2>6. CASE h = <<>>
      BY <2>4, <2>5, <2>6
    <2>7. CASE h = <<"bytes">>
      BY <2>1, <2>4, <2>5, <2>7
    <2> QED
      BY <2>3, <2>6, <2>7
  <1>2. CASE file.lines # <<>>
    <2> DEFINE t == Csv!Tokens(file.lines[1])
    <2>1. h = Csv!First(t)
      BY <1>2
    <2>2. file.lines[1] \in Seq(Marks) /\ "x" \in Marks
      <3>1. file.lines \in Seq(Seq(Marks))
        BY DEF CsvFile
      <3> QED
        BY <1>2, <3>1 DEF Marks, RowMarks
    <2>3. t \in Seq(Marks) /\ \A c \in 1 .. Len(t) : t[c] # Csv!Blank
      BY <2>2, TokensFacts
    <2> HIDE DEF t
    <2>4. /\ Csv!First(t) \in Seq(Marks) /\ Len(Csv!First(t)) <= MAX_BIN /\ Len(Csv!First(t)) <= Len(t)
          /\ \A c \in 1 .. Len(Csv!First(t)) : Csv!First(t)[c] = t[c]
      BY <2>3, FirstFacts
    <2>5. Len(Csv!First(t)) \in 0 .. MAX_BIN
      BY <2>4, CsvConstants
    <2>6. \A c \in 1 .. Len(Csv!First(t)) : c \in 1 .. Len(t)
      BY <2>3, <2>4
    <2> QED
      BY <2>1, <2>3, <2>4, <2>5, <2>6
  <1> QED
    BY <1>1, <1>2

\* The table keeps its shape; the names that a row too many overwrites are still names.
LEMMA CsvDataStep ==
  ASSUME CsvInv, CsvStep
  PROVE  CsvData'
  <1> USE DEF Csv!header, Csv!data, Csv!history, Csv!Return, Csv!Idle
  <1>0. CsvData /\ MAX_BIN \in Nat /\ CsvFile
    BY CsvConstants DEF CsvInv
  <1>a. ASSUME sep' = sep, names' = names, cols' = cols, mem' = mem, count' = count PROVE CsvData'
    BY <1>0, <1>a, Zenon DEF CsvData
  <1>1. ASSUME NEW s \in Csv!Separators, Csv!InitCSV(s) PROVE CsvData'
    <2>1. mem' = mem /\ names' = names
      BY <1>1, Zenon DEF Csv!InitCSV
    <2>3. (sep' = s /\ cols' = 0 /\ count' = 0) \/ (sep' = sep /\ cols' = cols /\ count' = count)
      BY <1>1, Zenon DEF Csv!InitCSV
    <2>2. ASSUME sep' = s, cols' = 0, count' = 0 PROVE CsvData'
      BY <1>0, <2>1, <2>2 DEF CsvData
    <2> QED
      BY <1>a, <2>1, <2>2, <2>3
  <1>2. ASSUME NEW row \in Csv!UpTo(Cells, MAX_BIN), Csv!AddRowCSV(row) PROVE CsvData'
    <2>0. row \in Seq(Cells)
      BY <1>0, UpToIsSeq
    <2>1. /\ sep' = sep /\ cols' = cols
          /\ \/ names' = names /\ mem' = mem /\ count' = count
             \/ /\ Len(row) = cols /\ count' = count + 1
                /\ IF count < MAX_BIN
                     THEN /\ mem' = [mem EXCEPT ![count + 1] =
                                       [c \in 1 .. MAX_BIN |-> IF c <= cols THEN row[c] ELSE @[c]]]
                          /\ names' = names
                     ELSE /\ names' = [c \in 1 .. MAX_BIN |-> IF c \in 2 .. cols + 1 THEN "bytes" ELSE names[c]]
                          /\ mem' = mem
      BY <1>2, Zenon DEF Csv!AddRowCSV
    <2>2. count \in Nat /\ cols \in 0 .. MAX_BIN /\ count + 1 \in Nat /\ "bytes" \in Marks /\ "bytes" # Csv!Blank
      <3>1. "bytes" # Csv!Blank
        BY Zenon DEF Csv!Blank
      <3>2. "bytes" \in Marks
        BY Zenon DEF Marks, RowMarks, Stored
      <3>3. count \in Nat /\ cols \in 0 .. MAX_BIN
        BY <1>0, Zenon DEF CsvData
      <3> QED
        BY <3>1, <3>2, <3>3
    <2>3. ASSUME Len(row) = cols, count' = count + 1, count < MAX_BIN,
                 mem' = [mem EXCEPT ![count + 1] = [c \in 1 .. MAX_BIN |-> IF c <= cols THEN row[c] ELSE @[c]]],
                 names' = names
          PROVE  CsvData'
      <3>1. mem \in [1 .. MAX_BIN -> [1 .. MAX_BIN -> Stored]] /\ count + 1 \in 1 .. MAX_BIN
        BY <1>0, <2>2, <2>3 DEF CsvData
      <3>2. \A c \in 1 .. MAX_BIN : (IF c <= cols THEN row[c] ELSE mem[count + 1][c]) \in Stored
        <4>1. \A c \in 1 .. MAX_BIN : c <= cols => row[c] \in Cells
          BY <2>0, <2>2, <2>3
        <4>2. \A c \in 1 .. MAX_BIN : mem[count + 1][c] \in Stored
          BY <3>1
        <4> QED
          BY <4>1, <4>2 DEF Stored
      <3>3. mem' \in [1 .. MAX_BIN -> [1 .. MAX_BIN -> Stored]]
        BY <2>3, <3>1, <3>2
      <3>4. sep' = sep /\ cols' = cols /\ count' \in Nat
        BY <2>1, <2>2, <2>3
      <3> QED
        BY <1>0, <2>3, <3>3, <3>4, Zenon DEF CsvData
    <2>4. ASSUME count' = count + 1, mem' = mem,
                 names' = [c \in 1 .. MAX_BIN |-> IF c \in 2 .. cols + 1 THEN "bytes" ELSE names[c]]
          PROVE  CsvData'
      <3>1. names \in [1 .. MAX_BIN -> Marks] /\ \A c \in 1 .. cols : names[c] # Csv!Blank
        BY <1>0, Zenon DEF CsvData
      <3>2. names' \in [1 .. MAX_BIN -> Marks]
        BY <2>2, <2>4, <3>1
      <3>3. \A c \in 1 .. cols : names'[c] # Csv!Blank
        BY <1>0, <2>2, <2>4, <3>1
      <3>4. sep' = sep /\ cols' = cols /\ count' \in Nat
        BY <2>1, <2>2, <2>4
      <3> QED
        BY <1>0, <2>4, <3>2, <3>3, <3>4, Zenon DEF CsvData
    <2> QED
      BY <1>a, <2>1, <2>3, <2>4, Zenon
  <1>3. CASE Csv!ParseHeader
    <2>1. PICK h \in IF file.lines = <<>> THEN {<<>>, <<"bytes">>} ELSE {Csv!First(Csv!Tokens(file.lines[1]))} :
             cols' = Len(h) /\ names' = [c \in 1 .. MAX_BIN |-> IF c <= Len(h) THEN h[c] ELSE names[c]]
      BY <1>3, Zenon DEF Csv!ParseHeader
    <2>2. h \in Seq(Marks) /\ Len(h) \in 0 .. MAX_BIN /\ \A c \in 1 .. Len(h) : h[c] # Csv!Blank
      BY <1>0, <2>1, ReadHeaderFacts
    <2>3. names \in [1 .. MAX_BIN -> Marks]
      BY <1>0, Zenon DEF CsvData
    <2>4. names' \in [1 .. MAX_BIN -> Marks] /\ \A c \in 1 .. cols' : names'[c] # Csv!Blank
      BY <1>0, <2>1, <2>2, <2>3
    <2>5. sep' = sep /\ mem' = mem /\ count' = count /\ cols' \in 0 .. MAX_BIN
      BY <1>3, <2>1, <2>2, Zenon DEF Csv!ParseHeader
    <2> QED
      BY <1>0, <2>4, <2>5, Zenon DEF CsvData
  <1>b. ASSUME Csv!InRow PROVE k \in 2 .. Len(file.lines)
    <2>1. pc = "rows" /\ k <= Len(file.lines)
      BY <1>b, Zenon DEF Csv!InRow
    <2>2. k >= 2 /\ k \in Nat
      BY <2>1 DEF CsvInv, CsvReading, CsvScalars
    <2>3. Len(file.lines) \in Nat
      BY <1>0 DEF CsvFile
    <2> QED
      BY <2>1, <2>2, <2>3
  <1>c. ASSUME Csv!InRow, ~Csv!TooMany, Csv!StoreCells, sep' = sep, names' = names, cols' = cols, count' \in Nat
        PROVE  CsvData'
    <2>1. k \in 2 .. Len(file.lines)
      BY <1>b, <1>c
    <2>2. mem' \in [1 .. MAX_BIN -> [1 .. MAX_BIN -> Stored]]
      BY <1>0, <1>c, <2>1, StoreFacts
    <2> QED
      BY <1>0, <1>c, <2>2, Zenon DEF CsvData
  <1>d. count \in Nat /\ count + 1 \in Nat
    BY <1>0 DEF CsvData
  <1>4. CASE Csv!ParseRow
    <2>1. Csv!InRow /\ ~Csv!TooMany /\ Csv!StoreCells /\ sep' = sep /\ names' = names /\ cols' = cols /\ count' = count + 1
      BY <1>4, Zenon DEF Csv!ParseRow
    <2> QED
      BY <1>c, <1>d, <2>1
  <1>5. CASE Csv!ParseRowFails
    <2>1. /\ Csv!InRow /\ sep' = sep /\ names' = names /\ cols' = cols /\ count' = count
          /\ mem' = mem \/ (~Csv!TooMany /\ Csv!StoreCells)
      BY <1>5, Zenon DEF Csv!ParseRowFails
    <2> QED
      BY <1>a, <1>c, <1>d, <2>1
  <1>6. CASE Csv!Crash
    <2>1. /\ sep' = "none" /\ names' = [c \in 1 .. MAX_BIN |-> Csv!Blank] /\ cols' = 0
          /\ mem' = [r \in 1 .. MAX_BIN |-> [c \in 1 .. MAX_BIN |-> "0"]] /\ count' = 0
      BY <1>6, Zenon DEF Csv!Crash, Csv!Start, Csv!NoRow
    <2> QED
      BY <1>0, <2>1 DEF CsvData, Marks, RowMarks, Stored
  <1>7. CASE Csv!ParseCannotOpen
    BY <1>a, <1>7, Zenon DEF Csv!ParseCannotOpen
  <1>8. CASE Csv!ParseEnd
    BY <1>a, <1>8, Zenon DEF Csv!ParseEnd
  <1>9. CASE Csv!SaveRefused
    BY <1>a, <1>9, Zenon DEF Csv!SaveRefused
  <1>10. CASE Csv!SaveHeader
    BY <1>a, <1>10, Zenon DEF Csv!SaveHeader
  <1>11. CASE Csv!SaveRow
    BY <1>a, <1>11, Zenon DEF Csv!SaveRow
  <1>12. CASE Csv!SaveClose
    BY <1>a, <1>12, Zenon DEF Csv!SaveClose
  <1>13. CASE UNCHANGED Csv!vars
    BY <1>a, <1>13, Zenon DEF Csv!vars
  <1> QED
    BY <1>1, <1>2, <1>3, <1>4, <1>5, <1>6, <1>7, <1>8, <1>9, <1>10, <1>11, <1>12, <1>13, Zenon DEF CsvStep, Csv!Next

\* Codes, places and counts stay in their ranges.
LEMMA CsvScalarsStep ==
  ASSUME CsvInv, CsvStep
  PROVE  CsvScalars'
  <1> USE DEF Csv!header, Csv!data, Csv!history, Csv!Return, Csv!Idle
  <1> DEFINE Err == {"NO_ERROR", "INVALID_NUMBER"}
             Ret == {"none", "true", "false"}
             Pcs == {"idle", "rows", "save"}
  <1>0. CsvScalars /\ MaxCalls \in Nat /\ MaxCrashes \in Nat /\ count \in Nat
    BY CsvConstants DEF CsvInv, CsvData
  <1>c. /\ err \in Err /\ pc \in Pcs /\ k \in Nat /\ ret \in Ret
        /\ calls \in 0 .. MaxCalls /\ crashes \in 0 .. MaxCrashes /\ start \in Nat /\ (pc = "rows" => ret = "none")
    BY <1>0, Zenon DEF CsvScalars
  <1>a. /\ 0 \in Nat /\ 1 \in Nat /\ 2 \in Nat /\ k + 1 \in Nat
        /\ (calls < MaxCalls => calls + 1 \in 0 .. MaxCalls) /\ (crashes < MaxCrashes => crashes + 1 \in 0 .. MaxCrashes)
    BY <1>0, <1>c
  <1>b. ASSUME err' \in Err, pc' \in Pcs, k' \in Nat, ret' \in Ret, calls' \in 0 .. MaxCalls,
               crashes' \in 0 .. MaxCrashes, start' \in Nat, pc' = "rows" => ret' = "none"
        PROVE  CsvScalars'
    BY <1>b, Zenon DEF CsvScalars
  <1>1. ASSUME NEW s, Csv!InitCSV(s) PROVE CsvScalars'
    <2>1. /\ pc = "idle" /\ pc' = pc /\ k' = k /\ err' = err /\ crashes' = crashes /\ start' = start
          /\ ret' = "true" \/ ret' = "false"
          /\ calls' = calls \/ (calls < MaxCalls /\ calls' = calls + 1)
      BY <1>1, Zenon DEF Csv!InitCSV
    <2> QED
      BY <1>a, <1>b, <1>c, <2>1
  <1>2. ASSUME NEW row, Csv!AddRowCSV(row) PROVE CsvScalars'
    <2>1. /\ pc = "idle" /\ pc' = pc /\ k' = k /\ err' = err /\ crashes' = crashes /\ start' = start
          /\ ret' = "true" \/ ret' = "false"
          /\ calls' = calls \/ (calls < MaxCalls /\ calls' = calls + 1)
      BY <1>2, Zenon DEF Csv!AddRowCSV
    <2> QED
      BY <1>a, <1>b, <1>c, <2>1
  <1>3. CASE Csv!ParseCannotOpen
    <2>1. /\ pc = "idle" /\ pc' = pc /\ k' = k /\ err' = err /\ crashes' = crashes /\ start' = start
          /\ ret' = "false" /\ calls' = calls
      BY <1>3, Zenon DEF Csv!ParseCannotOpen
    <2> QED
      BY <1>a, <1>b, <1>c, <2>1
  <1>4. CASE Csv!ParseHeader
    <2>1. /\ pc' = "rows" /\ k' = 2 /\ err' = err /\ crashes' = crashes /\ start' = count
          /\ ret' = "none" /\ calls < MaxCalls /\ calls' = calls + 1
      BY <1>4, Zenon DEF Csv!ParseHeader
    <2> QED
      BY <1>0, <1>a, <1>b, <1>c, <2>1
  <1>5. CASE Csv!ParseRow
    <2>1. /\ pc' = pc /\ k' = k + 1 /\ err' = err /\ crashes' = crashes /\ start' = start
          /\ ret' = ret /\ calls' = calls
      BY <1>5, Zenon DEF Csv!ParseRow
    <2> QED
      BY <1>a, <1>b, <1>c, <2>1
  <1>6. CASE Csv!ParseRowFails
    <2>1. /\ pc' = "idle" /\ k' = 0 /\ err' = "INVALID_NUMBER" /\ crashes' = crashes /\ start' = start
          /\ ret' = "false" /\ calls' = calls
      BY <1>6, Zenon DEF Csv!ParseRowFails
    <2> QED
      BY <1>a, <1>b, <1>c, <2>1
  <1>7. CASE Csv!ParseEnd
    <2>1. /\ pc' = "idle" /\ k' = 0 /\ err' = "NO_ERROR" /\ crashes' = crashes /\ start' = start
          /\ ret' = "true" /\ calls' = calls
      BY <1>7, Zenon DEF Csv!ParseEnd
    <2> QED
      BY <1>a, <1>b, <1>c, <2>1
  <1>8. CASE Csv!SaveRefused
    <2>1. /\ pc = "idle" /\ pc' = pc /\ k' = k /\ err' = err /\ crashes' = crashes /\ start' = start
          /\ ret' = "false" /\ calls' = calls
      BY <1>8, Zenon DEF Csv!SaveRefused
    <2> QED
      BY <1>a, <1>b, <1>c, <2>1
  <1>9. CASE Csv!SaveHeader
    <2>1. /\ pc' = "save" /\ k' = 1 /\ err' = err /\ crashes' = crashes /\ start' = start
          /\ ret' = "none" /\ calls < MaxCalls /\ calls' = calls + 1
      BY <1>9, Zenon DEF Csv!SaveHeader
    <2> QED
      BY <1>a, <1>b, <1>c, <2>1
  <1>10. CASE Csv!SaveRow
    <2>1. /\ pc' = pc /\ k' = k + 1 /\ err' = err /\ crashes' = crashes /\ start' = start
          /\ ret' = ret /\ calls' = calls
      BY <1>10, Zenon DEF Csv!SaveRow
    <2> QED
      BY <1>a, <1>b, <1>c, <2>1
  <1>11. CASE Csv!SaveClose
    <2>1. /\ pc' = "idle" /\ k' = 0 /\ err' = err /\ crashes' = crashes /\ start' = start
          /\ ret' = "true" /\ calls' = calls
      BY <1>11, Zenon DEF Csv!SaveClose
    <2> QED
      BY <1>a, <1>b, <1>c, <2>1
  <1>12. CASE Csv!Crash
    <2>1. /\ pc' = "idle" /\ k' = 0 /\ err' = "NO_ERROR" /\ crashes < MaxCrashes /\ crashes' = crashes + 1 /\ start' = 0
          /\ ret' = "none" /\ calls' = calls
      BY <1>12, Zenon DEF Csv!Crash, Csv!Start
    <2> QED
      BY <1>a, <1>b, <1>c, <2>1
  <1>13. CASE UNCHANGED Csv!vars
    BY <1>0, <1>13, Zenon DEF Csv!vars, CsvScalars
  <1> QED
    BY <1>1, <1>2, <1>3, <1>4, <1>5, <1>6, <1>7, <1>8, <1>9, <1>10, <1>11, <1>12, <1>13, Zenon DEF CsvStep, Csv!Next

\* The flags stay flags.
LEMMA CsvBooleansStep ==
  ASSUME CsvInv, CsvStep
  PROVE  CsvBooleans'
  <1>0. torn \in BOOLEAN /\ byHand \in BOOLEAN
    BY Zenon DEF CsvInv, CsvBooleans
  <1>1. (torn' = torn \/ torn' = TRUE \/ torn' = FALSE) /\ (byHand' = byHand \/ byHand' = FALSE)
    BY CsvKinds, Zenon DEF CsvRests, Csv!vars, Csv!history, Csv!SaveHeader, Csv!SaveRow, Csv!SaveClose, Csv!Crash
  <1> QED
    BY <1>0, <1>1, Zenon DEF CsvBooleans

\* While a file is read its lines, and the separator, stay.
LEMMA ReadingStep ==
  ASSUME CsvInv, CsvStep, pc' = "rows"
  PROVE  /\ file' = file /\ sep' = sep
         /\ \/ Csv!ParseHeader \/ Csv!ParseRow
            \/ /\ pc = "rows" /\ names' = names /\ cols' = cols /\ mem' = mem /\ count' = count /\ k' = k
               /\ start' = start
  <1> USE DEF Csv!header, Csv!data, Csv!history, Csv!Return, Csv!Idle
  <1>0. "idle" # "rows" /\ "save" # "rows"
    OBVIOUS
  <1>1. ASSUME NEW s, Csv!InitCSV(s) PROVE FALSE
    BY <1>0, <1>1, Zenon DEF Csv!InitCSV
  <1>2. ASSUME NEW row, Csv!AddRowCSV(row) PROVE FALSE
    BY <1>0, <1>2, Zenon DEF Csv!AddRowCSV
  <1>3. ~Csv!ParseCannotOpen /\ ~Csv!ParseRowFails /\ ~Csv!ParseEnd /\ ~Csv!SaveRefused
    BY <1>0, Zenon DEF Csv!ParseCannotOpen, Csv!ParseRowFails, Csv!ParseEnd, Csv!SaveRefused
  <1>4. ~Csv!SaveHeader /\ ~Csv!SaveRow /\ ~Csv!SaveClose /\ ~Csv!Crash
    BY <1>0, Zenon DEF Csv!SaveHeader, Csv!SaveRow, Csv!SaveClose, Csv!Crash, Csv!Start
  <1>5. CASE Csv!ParseHeader
    BY <1>5, Zenon DEF Csv!ParseHeader
  <1>6. CASE Csv!ParseRow
    BY <1>6, Zenon DEF Csv!ParseRow
  <1>7. CASE UNCHANGED Csv!vars
    BY <1>7, Zenon DEF Csv!vars
  <1> QED
    BY <1>1, <1>2, <1>3, <1>4, <1>5, <1>6, <1>7, Zenon DEF CsvStep, Csv!Next

\* The tokens of a line depend on the separators only.
LEMMA TokensKept ==
  ASSUME file' = file, sep' = sep, NEW l
  PROVE  Csv!Tokens(file.lines[l])' = Csv!Tokens(file.lines[l])
  BY Zenon DEF Csv!Tokens

\* What ParseRow does to what is read.
LEMMA ParseRowFacts ==
  ASSUME CsvInv, Csv!ParseRow
  PROVE  /\ pc = "rows" /\ k \in 2 .. Len(file.lines)
         /\ file' = file /\ sep' = sep /\ names' = names /\ cols' = cols /\ start' = start
         /\ count' = count + 1 /\ k' = k + 1
         /\ Csv!Tokens(file.lines[k]) # <<>> => count + 1 <= MAX_BIN
         /\ \A r \in 1 .. MAX_BIN : r # count + 1 => mem'[r] = mem[r]
         /\ Len(Csv!Tokens(file.lines[k])) = cols /\ count + 1 <= MAX_BIN =>
               \A c \in 1 .. cols : mem'[count + 1][c] = Csv!Tokens(file.lines[k])[c]
  <1>1. /\ pc = "rows" /\ k <= Len(file.lines)
        /\ file' = file /\ sep' = sep /\ names' = names /\ cols' = cols /\ start' = start
        /\ count' = count + 1 /\ k' = k + 1
        /\ ~Csv!TooMany /\ Csv!Good = Len(Csv!Row) /\ Csv!StoreCells
    BY Zenon DEF Csv!ParseRow, Csv!InRow, Csv!header, Csv!history
  <1>2. k \in 2 .. Len(file.lines)
    <2>1. k >= 2 /\ k \in Nat
      BY <1>1 DEF CsvInv, CsvReading, CsvScalars
    <2>2. Len(file.lines) \in Nat
      BY DEF CsvInv, CsvFile
    <2> QED
      BY <1>1, <2>1, <2>2
  <1>3. CsvFile /\ CsvData
    BY DEF CsvInv
  <1>4. /\ \A r \in 1 .. MAX_BIN : r # count + 1 => mem'[r] = mem[r]
        /\ Csv!Row # <<>> => count + 1 \in 1 .. MAX_BIN /\ \A c \in 1 .. Csv!Good : mem'[count + 1][c] = Csv!Row[c]
    BY <1>1, <1>2, <1>3, StoreFacts
  <1>5. /\ Len(Csv!Tokens(file.lines[k])) <= MAX_BIN => Csv!Row = Csv!Tokens(file.lines[k])
        /\ Csv!Tokens(file.lines[k]) # <<>> => Csv!Row # <<>>
        /\ Csv!Tokens(file.lines[k]) \in Seq(RowMarks)
    BY <1>2, <1>3, RowFacts
  <1>6. cols \in 0 .. MAX_BIN /\ MAX_BIN \in Nat
    BY <1>3, CsvConstants DEF CsvData
  <1>7. ASSUME Len(Csv!Tokens(file.lines[k])) = cols, NEW c \in 1 .. cols
        PROVE  mem'[count + 1][c] = Csv!Tokens(file.lines[k])[c]
    <2>1. Csv!Row = Csv!Tokens(file.lines[k])
      BY <1>5, <1>6, <1>7
    <2>2. Csv!Row # <<>> /\ c \in 1 .. Csv!Good
      BY <1>1, <1>5, <1>6, <1>7, <2>1
    <2> QED
      BY <1>4, <2>1, <2>2
  <1>8. Csv!Tokens(file.lines[k]) # <<>> => count + 1 <= MAX_BIN
    BY <1>4, <1>5, <1>6
  <1> QED
    BY <1>1, <1>2, <1>4, <1>7, <1>8

\* The parts of CsvReading: which line is read, the header that was read, the rows that fitted.
CsvPlace  == k >= 2 /\ count = start + k - 2 /\ (k <= Len(file.lines) + 1 \/ k = 2)
CsvHeader == file.lines # <<>> =>
                LET h == Csv!First(Csv!Tokens(file.lines[1]))
                IN  cols = Len(h) /\ \A c \in 1 .. cols : names[c] = h[c]
CsvFitted == \A l \in 2 .. k - 1 : Csv!Tokens(file.lines[l]) # <<>> => start + l - 1 <= MAX_BIN

\* CsvReading in its parts.
LEMMA CsvReadingParts == CsvReading <=> (pc = "rows" => CsvPlace /\ CsvHeader /\ CsvFitted)
  BY Zenon DEF CsvReading, CsvPlace, CsvHeader, CsvFitted

\* A parse goes on as CsvReading says.
LEMMA CsvReadingStep ==
  ASSUME CsvInv, CsvStep
  PROVE  CsvReading'
  <1> SUFFICES ASSUME pc' = "rows" PROVE CsvPlace' /\ CsvHeader' /\ CsvFitted'
    BY Zenon DEF CsvReading, CsvPlace, CsvHeader, CsvFitted
  <1>0. count \in Nat /\ start \in Nat /\ k \in Nat /\ Len(file.lines) \in Nat /\ MAX_BIN \in Nat
    BY CsvConstants DEF CsvInv, CsvData, CsvScalars, CsvFile
  <1>1. file' = file /\ sep' = sep
    BY ReadingStep
  <1>t. \A l : Csv!Tokens(file.lines[l])' = Csv!Tokens(file.lines[l])
    BY <1>1, TokensKept, Zenon
  <1>2. ASSUME pc = "rows", names' = names, cols' = cols, count' = count, k' = k, start' = start
        PROVE  CsvPlace' /\ CsvHeader' /\ CsvFitted'
    <2>1. CsvPlace /\ CsvHeader /\ CsvFitted
      BY <1>2, CsvReadingParts DEF CsvInv
    <2>2. CsvPlace'
      BY <1>1, <1>2, <2>1, Zenon DEF CsvPlace
    <2>3. CsvHeader'
      BY <1>1, <1>2, <2>1, Zenon DEF CsvHeader, Csv!Tokens, Csv!First
    <2>4. CsvFitted'
      BY <1>1, <1>2, <2>1, Zenon DEF CsvFitted, Csv!Tokens
    <2> QED
      BY <2>2, <2>3, <2>4
  <1>3. CASE Csv!ParseRow
    <2>1. /\ pc = "rows" /\ k \in 2 .. Len(file.lines)
          /\ names' = names /\ cols' = cols /\ start' = start
          /\ count' = count + 1 /\ k' = k + 1
          /\ Csv!Tokens(file.lines[k]) # <<>> => count + 1 <= MAX_BIN
      BY <1>3, ParseRowFacts
    <2>2. CsvPlace /\ CsvHeader /\ CsvFitted
      BY <2>1, CsvReadingParts DEF CsvInv
    <2>3. k >= 2 /\ count = start + k - 2
      BY <2>2 DEF CsvPlace
    <2>4. CsvPlace'
      <3>1. k + 1 >= 2 /\ count + 1 = start + (k + 1) - 2 /\ k + 1 <= Len(file.lines) + 1
        BY <1>0, <2>1, <2>3
      <3> QED
        BY <1>1, <2>1, <3>1 DEF CsvPlace
    <2>5. CsvHeader'
      BY <1>1, <2>1, <2>2, Zenon DEF CsvHeader, Csv!Tokens, Csv!First
    <2>6. CsvFitted'
      <3>1. ASSUME NEW l \in 2 .. k, Csv!Tokens(file.lines[l]) # <<>> PROVE start + l - 1 <= MAX_BIN
        <4>1. CASE l = k
          BY <1>0, <2>1, <2>3, <3>1, <4>1
        <4>2. CASE l # k
          <5>1. l \in 2 .. k - 1
            BY <1>0, <4>2
          <5> QED
            BY <2>2, <3>1, <5>1, Zenon DEF CsvFitted
        <4> QED
          BY <4>1, <4>2
      <3>2. k' - 1 = k
        BY <1>0, <2>1
      <3>3. \A l \in 2 .. k' - 1 : Csv!Tokens(file.lines[l]) # <<>> => start' + l - 1 <= MAX_BIN
        BY <2>1, <3>1, <3>2, Zenon
      <3> QED
        BY <1>t, <3>3, Zenon DEF CsvFitted
    <2> QED
      BY <2>4, <2>5, <2>6
  <1>4. CASE Csv!ParseHeader
    <2>1. k' = 2 /\ start' = count /\ count' = count
      BY <1>4, Zenon DEF Csv!ParseHeader, Csv!data
    <2>2. PICK h \in IF file.lines = <<>> THEN {<<>>, <<"bytes">>} ELSE {Csv!First(Csv!Tokens(file.lines[1]))} :
             cols' = Len(h) /\ names' = [c \in 1 .. MAX_BIN |-> IF c <= Len(h) THEN h[c] ELSE names[c]]
      BY <1>4, Zenon DEF Csv!ParseHeader
    <2>3. h \in Seq(Marks) /\ Len(h) \in 0 .. MAX_BIN
      BY <2>2, ReadHeaderFacts DEF CsvInv
    <2>4. CsvPlace'
      BY <1>0, <2>1 DEF CsvPlace
    <2>5. CsvHeader'
      <3>1. \A c \in 1 .. cols' : names'[c] = h[c]
        BY <1>0, <2>2, <2>3
      <3>2. CASE file.lines = <<>>
        BY <1>1, <3>2, Zenon DEF CsvHeader
      <3>3. CASE file.lines # <<>>
        <4>1. h = Csv!First(Csv!Tokens(file.lines[1]))
          BY <2>2, <3>3
        <4>2. Csv!First(Csv!Tokens(file.lines[1]))' = Csv!First(Csv!Tokens(file.lines[1]))
          BY <1>1, Zenon DEF Csv!Tokens, Csv!First
        <4> QED
          BY <2>2, <3>1, <4>1, <4>2, Zenon DEF CsvHeader
      <3> QED
        BY <3>2, <3>3
    <2>6. CsvFitted'
      <3>1. \A l \in 2 .. k' - 1 : FALSE
        BY <2>1
      <3> QED
        BY <3>1, Zenon DEF CsvFitted
    <2> QED
      BY <2>4, <2>5, <2>6
  <1> QED
    BY <1>2, <1>3, <1>4, ReadingStep

\* A row that was read from a full line stays as it is until the parse ends.
LEMMA FullRowsStep ==
  ASSUME CsvInv, CsvStep
  PROVE  Csv!FullRowsAreRead'
  <1> SUFFICES ASSUME pc' = "rows" PROVE Csv!FullRowsAreRead'
    BY Zenon DEF Csv!FullRowsAreRead
  <1>0. count \in Nat /\ start \in Nat /\ k \in Nat /\ cols \in Nat /\ Len(file.lines) \in Nat /\ MAX_BIN \in Nat
    BY CsvConstants DEF CsvInv, CsvData, CsvScalars, CsvFile
  <1>1. file' = file /\ sep' = sep
    BY ReadingStep
  <1>t. \A l : Csv!Tokens(file.lines[l])' = Csv!Tokens(file.lines[l])
    BY <1>1, TokensKept, Zenon
  <1>2. ASSUME pc = "rows", cols' = cols, mem' = mem, k' = k, start' = start PROVE Csv!FullRowsAreRead'
    <2>1. Csv!FullRowsAreRead
      BY DEF CsvInv
    <2>2. \A l \in 2 .. k' - 1 :
             Len(Csv!Tokens(file.lines[l])) = cols' /\ start' + l - 1 <= MAX_BIN =>
                \A c \in 1 .. cols' : mem'[start' + l - 1][c] = Csv!Tokens(file.lines[l])[c]
      BY <1>2, <2>1, Zenon DEF Csv!FullRowsAreRead
    <2> QED
      BY <1>t, <2>2, Zenon DEF Csv!FullRowsAreRead
  <1>3. CASE Csv!ParseRow
    <2>1. /\ pc = "rows" /\ k \in 2 .. Len(file.lines)
          /\ cols' = cols /\ start' = start /\ k' = k + 1
          /\ \A r \in 1 .. MAX_BIN : r # count + 1 => mem'[r] = mem[r]
          /\ Len(Csv!Tokens(file.lines[k])) = cols /\ count + 1 <= MAX_BIN =>
               \A c \in 1 .. cols : mem'[count + 1][c] = Csv!Tokens(file.lines[k])[c]
      BY <1>3, ParseRowFacts
    <2>2. count = start + k - 2
      BY <2>1 DEF CsvInv, CsvReading
    <2>3. ASSUME NEW l \in 2 .. k, Len(Csv!Tokens(file.lines[l])) = cols, start + l - 1 <= MAX_BIN, NEW c \in 1 .. cols
          PROVE  mem'[start + l - 1][c] = Csv!Tokens(file.lines[l])[c]
      <3>1. CASE l = k
        <4>1. start + l - 1 = count + 1
          BY <1>0, <2>2, <3>1
        <4> QED
          BY <2>1, <2>3, <3>1, <4>1
      <3>2. CASE l # k
        <4>1. l \in 2 .. k - 1 /\ start + l - 1 \in 1 .. MAX_BIN /\ start + l - 1 # count + 1
          BY <1>0, <2>2, <2>3, <3>2
        <4>2. mem[start + l - 1][c] = Csv!Tokens(file.lines[l])[c]
          BY <2>1, <2>3, <4>1, Zenon DEF CsvInv, Csv!FullRowsAreRead
        <4>3. mem'[start + l - 1] = mem[start + l - 1]
          BY <2>1, <4>1
        <4> QED
          BY <4>2, <4>3
      <3> QED
        BY <3>1, <3>2
    <2>4. k' - 1 = k
      BY <1>0, <2>1
    <2>5. \A l \in 2 .. k' - 1 :
             Len(Csv!Tokens(file.lines[l])) = cols' /\ start' + l - 1 <= MAX_BIN =>
                \A c \in 1 .. cols' : mem'[start' + l - 1][c] = Csv!Tokens(file.lines[l])[c]
      BY <2>1, <2>3, <2>4, Zenon
    <2> QED
      BY <1>t, <2>5, Zenon DEF Csv!FullRowsAreRead
  <1>4. CASE Csv!ParseHeader
    <2>1. k' = 2
      BY <1>4, Zenon DEF Csv!ParseHeader
    <2>2. \A l \in 2 .. k' - 1 : FALSE
      BY <2>1
    <2> QED
      BY <2>2, Zenon DEF Csv!FullRowsAreRead
  <1> QED
    BY <1>2, <1>3, <1>4, ReadingStep

\* The column of a name: as many cells as the table has rows, of the first column of that name.
LEMMA ColumnFacts ==
  ASSUME CsvData, NEW c \in 1 .. cols
  PROVE  /\ Csv!GetCSVData(names[c]) \in Seq(Stored) /\ Len(Csv!GetCSVData(names[c])) = count
         /\ (\A i, j \in 1 .. cols : names[i] = names[j] => i = j) =>
               \A r \in 1 .. count : Csv!GetCSVData(names[c])[r] = Csv!Cell(r, c)
  <1> DEFINE of == {d \in 1 .. cols : names[d] = names[c]}
             i == CHOOSE d \in of : \A e \in of : d <= e
             column == [r \in 1 .. count |-> Csv!Cell(r, i)]
  <1>1. Csv!GetCSVData(names[c]) = IF of = {} THEN <<>> ELSE column
    BY DEF Csv!GetCSVData
  <1>2. c \in of /\ of \subseteq Nat
    BY CsvConstants DEF CsvData
  <1>3. i \in of
    <2>1. \E d \in of : \A e \in of : d <= e
      <3> HIDE DEF of
      <3> QED
        BY <1>2, HasLeast
    <2> QED
      BY <2>1
  <1> HIDE DEF i
  <1>4. i \in 1 .. cols /\ names[i] = names[c]
    BY <1>3
  <1>5. count \in Nat
    BY DEF CsvData
  <1>6. ASSUME NEW r \in 1 .. count PROVE Csv!Cell(r, i) \in Stored
    <2>1. r \in Nat \ {0}
      BY <1>5
    <2> QED
      BY <1>4, <2>1, CellsAreStored
  <1>7. column \in Seq(Stored) /\ Len(column) = count /\ \A r \in 1 .. count : column[r] = Csv!Cell(r, i)
    <2>1. column \in [1 .. count -> Stored] /\ \A r \in 1 .. count : column[r] = Csv!Cell(r, i)
      BY <1>6
    <2> HIDE DEF column
    <2> QED
      BY <1>5, <2>1, SeqDef, LenProperties
  <1>8. Csv!GetCSVData(names[c]) = column
    BY <1>1, <1>2, Zenon
  <1> HIDE DEF column
  <1>9. (\A a, b \in 1 .. cols : names[a] = names[b] => a = b) => i = c
    BY <1>4
  <1> QED
    BY <1>7, <1>8, <1>9

\* The columns stay with the table.
LEMMA ColumnsKept ==
  ASSUME names' = names, cols' = cols, mem' = mem, count' = count, NEW c
  PROVE  Csv!GetCSVData(names[c])' = Csv!GetCSVData(names[c])
  BY SMT DEF Csv!GetCSVData, Csv!Cell

\* The parts of CsvSaved: the shape of what was saved, and the save that is going on.
SavedShape ==
    /\ file.sep = "comma"
    /\ saved.names \in Seq(Marks \ {Csv!Blank}) /\ Width \in 1 .. MAX_BIN /\ Height >= 1
    /\ \A c \in 1 .. Width : saved.column[c] \in Seq(Stored) /\ Len(saved.column[c]) = Height
    /\ Len(file.lines) <= Height + 1
SavingIt ==
    /\ cols = Width /\ Height = count /\ k = Len(file.lines) /\ k >= 1
    /\ saved.names = SubSeq(names, 1, cols)
    /\ \A c \in 1 .. cols : saved.column[c] = Csv!GetCSVData(names[c])

\* CsvSaved in its parts.
LEMMA CsvSavedParts ==
  CsvSaved <=>
    /\ ~byHand =>
         /\ SavedShape
         /\ ~torn => Len(file.lines) = Height + 1
         /\ \A l \in 1 .. Len(file.lines) : l < Len(file.lines) \/ ~torn \/ pc = "save" => SavedWhole(l)
    /\ pc = "save" => ~byHand /\ torn /\ SavingIt
  BY Zenon DEF CsvSaved, SavedShape, SavingIt

\* The shape of what was saved stays.
LEMMA SavedShapeKept ==
  ASSUME SavedShape, saved' = saved, file'.sep = file.sep, Len(file'.lines) <= Height + 1
  PROVE  SavedShape'
  BY Zenon DEF SavedShape, Width, Height

\* A line that is not written stays whole.
LEMMA SavedWholeKept ==
  ASSUME saved' = saved, NEW l, file'.lines[l] = file.lines[l], SavedWhole(l)
  PROVE  SavedWhole(l)'
  BY Zenon DEF SavedWhole, Width, Csv!IsInjective

\* What is saved stays while nothing is written.
LEMMA SavedKept ==
  ASSUME CsvSaved, file' = file, saved' = saved, torn' = torn, byHand' = byHand, pc # "save", pc' # "save"
  PROVE  CsvSaved'
  <1> SUFFICES ASSUME ~byHand'
      PROVE  /\ SavedShape'
             /\ ~torn' => Len(file'.lines) = (Height + 1)'
             /\ \A l \in 1 .. Len(file'.lines) : l < Len(file'.lines) \/ ~torn' => SavedWhole(l)'
    BY Zenon DEF CsvSaved, SavedShape
  <1>1. ~byHand
    BY Zenon
  <1>2. /\ SavedShape
        /\ ~torn => Len(file.lines) = Height + 1
        /\ \A l \in 1 .. Len(file.lines) : l < Len(file.lines) \/ ~torn => SavedWhole(l)
    BY <1>1, CsvSavedParts, Zenon
  <1>3. SavedShape'
    BY <1>2, Zenon DEF SavedShape, Width, Height
  <1>4. ~torn' => Len(file'.lines) = (Height + 1)'
    BY <1>2, Zenon DEF Height
  <1>5. ASSUME NEW l \in 1 .. Len(file'.lines), l < Len(file'.lines) \/ ~torn' PROVE SavedWhole(l)'
    <2>1. SavedWhole(l)
      BY <1>2, <1>5, Zenon
    <2> QED
      BY <2>1, SavedWholeKept, Zenon
  <1> QED
    BY <1>3, <1>4, <1>5, Zenon

\* The lengths the invariant bounds.
LEMMA SavedLengths ==
  ASSUME CsvInv
  PROVE  /\ Len(file.lines) \in Nat /\ count \in Nat /\ k \in Nat /\ cols \in Nat
         /\ ~byHand => Height \in Nat /\ Width \in Nat
  <1>1. Len(file.lines) \in Nat /\ count \in Nat /\ k \in Nat /\ cols \in Nat
    BY CsvConstants DEF CsvInv, CsvFile, CsvData, CsvScalars
  <1>2. ASSUME ~byHand PROVE Height \in Nat /\ Width \in Nat
    <2>1. Width \in 1 .. MAX_BIN /\ \A c \in 1 .. Width : saved.column[c] \in Seq(Stored)
      BY <1>2, CsvSavedParts, Zenon DEF CsvInv, SavedShape
    <2>2. Width \in Nat /\ saved.column[1] \in Seq(Stored)
      BY <2>1, CsvConstants
    <2> QED
      BY <2>2 DEF Height
  <1> QED
    BY <1>1, <1>2

\* What is written is the row of its number, and what a crash leaves is whole but for its end.
LEMMA CsvSavedStep ==
  ASSUME CsvInv, CsvStep
  PROVE  CsvSaved'
  <1>0. CsvSaved /\ CsvData /\ CsvFile
    BY DEF CsvInv
  <1>1. CASE CsvRests
    BY <1>0, <1>1, SavedKept, Zenon DEF CsvRests
  <1>2. CASE UNCHANGED Csv!vars
    <2>1. /\ file' = file /\ saved' = saved /\ torn' = torn /\ byHand' = byHand /\ pc' = pc /\ k' = k
          /\ names' = names /\ cols' = cols /\ mem' = mem /\ count' = count
      BY <1>2, Zenon DEF Csv!vars, Csv!header, Csv!data, Csv!history
    <2>2. CASE pc # "save"
      BY <1>0, <2>1, <2>2, SavedKept, Zenon
    <2>3. CASE pc = "save"
      <3>1. ~byHand /\ torn /\ SavedShape /\ SavingIt /\ \A l \in 1 .. Len(file.lines) : SavedWhole(l)
        BY <1>0, <2>3, CsvSavedParts, Zenon
      <3>2. ~byHand' /\ torn'
        BY <2>1, <3>1, Zenon
      <3>3. SavedShape'
        BY <2>1, <3>1, Zenon DEF SavedShape, Width, Height
      <3>4. \A c \in 1 .. cols : Csv!GetCSVData(names[c])' = Csv!GetCSVData(names[c])
        BY <2>1, ColumnsKept
      <3>5. SavingIt'
        BY <2>1, <3>1, <3>4, Zenon DEF SavingIt, Width, Height
      <3>6. ASSUME NEW l \in 1 .. Len(file'.lines) PROVE SavedWhole(l)'
        <4>1. SavedWhole(l)
          BY <2>1, <3>1, Zenon
        <4> QED
          BY <2>1, <4>1, SavedWholeKept, Zenon
      <3> QED
        BY <3>2, <3>3, <3>5, <3>6, Zenon DEF CsvSaved, SavedShape, SavingIt
    <2> QED
      BY <2>2, <2>3
  <1>3. CASE Csv!SaveHeader
    <2> DEFINE h == SubSeq(names, 1, cols)
    <2>1. /\ cols # 0 /\ count # 0
          /\ file' = [sep |-> "comma", lines |-> <<h>>]
          /\ pc' = "save" /\ k' = 1
          /\ saved' = [names |-> h, column |-> [c \in 1 .. cols |-> Csv!GetCSVData(names[c])]]
          /\ names' = names /\ cols' = cols /\ mem' = mem /\ count' = count
      BY <1>3, Zenon DEF Csv!SaveHeader, Csv!header, Csv!data
    <2>2. torn' = TRUE /\ byHand' = FALSE
      BY <1>3, Zenon DEF Csv!SaveHeader
    <2>3. h \in Seq(Marks \ {Csv!Blank}) /\ Len(h) = cols
      BY <1>0, HeaderFacts
    <2>4. \A c \in 1 .. cols : Csv!GetCSVData(names[c]) \in Seq(Stored) /\ Len(Csv!GetCSVData(names[c])) = count
      BY <1>0, ColumnFacts
    <2>5. \A c \in 1 .. cols : Csv!GetCSVData(names[c])' = Csv!GetCSVData(names[c])
      BY <2>1, ColumnsKept
    <2>6. cols \in 1 .. MAX_BIN /\ count \in Nat /\ count >= 1
      BY <1>0, <2>1, CsvConstants DEF CsvData
    <2> HIDE DEF h
    <2>7. /\ saved'.names = h /\ \A c \in 1 .. cols : saved'.column[c] = Csv!GetCSVData(names[c])
          /\ file'.sep = "comma" /\ file'.lines = <<h>> /\ Len(file'.lines) = 1 /\ file'.lines[1] = h
      BY <2>1
    <2>8. Width' = cols /\ Height' = count
      <3>1. Len(saved'.names) = cols /\ Len(saved'.column[1]) = count
        BY <2>3, <2>4, <2>6, <2>7
      <3> QED
        BY <3>1, Zenon DEF Width, Height
    <2>9. SavedShape'
      <3>1. Len(file'.lines) <= count + 1
        BY <2>6, <2>7
      <3> QED
        BY <2>3, <2>4, <2>6, <2>7, <2>8, <3>1, Zenon DEF SavedShape
    <2>10. SavingIt'
      <3>1. k' = Len(file'.lines) /\ k' >= 1
        BY <2>1, <2>7
      <3>2. saved'.names = SubSeq(names', 1, cols')
        BY <2>1, <2>7, Zenon DEF h
      <3> QED
        BY <2>1, <2>5, <2>7, <2>8, <3>1, <3>2, Zenon DEF SavingIt
    <2>11. ASSUME NEW l \in 1 .. Len(file'.lines) PROVE l = 1
      BY <2>7
    <2>12. ~(1 > 1) /\ \A l \in 1 .. Len(file'.lines) : SavedWhole(l)'
      <3>1. ASSUME NEW l \in 1 .. Len(file'.lines) PROVE SavedWhole(l)'
        <4>1. l = 1 /\ ~(l > 1)
          BY <2>11
        <4> QED
          BY <2>7, <4>1, Zenon DEF SavedWhole
      <3> QED
        BY <3>1
    <2> QED
      BY <2>2, <2>9, <2>10, <2>12, Zenon DEF CsvSaved, SavedShape, SavingIt
  <1>4. CASE Csv!SaveRow
    <2> DEFINE row == [c \in 1 .. cols |-> Csv!Cell(k, c)]
    <2>1. /\ pc = "save" /\ k <= count
          /\ file' = [file EXCEPT !.lines = Append(@, row)]
          /\ k' = k + 1 /\ pc' = pc
          /\ names' = names /\ cols' = cols /\ mem' = mem /\ count' = count
          /\ saved' = saved
      BY <1>4, Zenon DEF Csv!SaveRow, Csv!header, Csv!data, Csv!history
    <2>2. torn' = torn /\ byHand' = byHand
      BY <1>4, Zenon DEF Csv!SaveRow, Csv!history
    <2>3. ~byHand /\ torn /\ SavedShape /\ SavingIt /\ \A l \in 1 .. Len(file.lines) : SavedWhole(l)
      BY <1>0, <2>1, CsvSavedParts, Zenon
    <2>4. Len(file.lines) \in Nat /\ count \in Nat /\ k \in Nat /\ cols \in Nat /\ Height \in Nat
      BY <2>3, SavedLengths
    <2>5. /\ cols = Width /\ Height = count /\ k = Len(file.lines) /\ k >= 1
          /\ saved.names = SubSeq(names, 1, cols)
          /\ \A c \in 1 .. cols : saved.column[c] = Csv!GetCSVData(names[c])
      BY <2>3 DEF SavingIt
    <2> HIDE DEF row
    <2>6. /\ file'.sep = file.sep /\ file'.lines = Append(file.lines, row)
      <3>1. file' = [file EXCEPT !.lines = Append(file.lines, row)] /\ file \in [sep : Csv!Separators, lines : Seq(Seq(Marks))]
        BY <1>0, <2>1 DEF CsvFile
      <3> QED
        BY <3>1
    <2>7. /\ Len(file'.lines) = Len(file.lines) + 1 /\ file'.lines[Len(file.lines) + 1] = row
          /\ \A i \in 1 .. Len(file.lines) : file'.lines[i] = file.lines[i]
      <3>1. file.lines \in Seq(Seq(Marks) \cup {row})
        <4>1. file.lines \in Seq(Seq(Marks))
          BY <1>0 DEF CsvFile
        <4>2. Seq(Marks) \subseteq Seq(Marks) \cup {row}
          OBVIOUS
        <4> QED
          BY <4>1, <4>2, SeqMono, Zenon
      <3>2. row \in Seq(Marks) \cup {row}
        OBVIOUS
      <3> QED
        BY <2>6, <3>1, <3>2, LinesFit
    <2>8. SavedShape'
      <3>1. Len(file'.lines) <= Height + 1
        BY <2>1, <2>4, <2>5, <2>7
      <3> QED
        BY <2>1, <2>3, <2>6, <3>1, SavedShapeKept
    <2>9. SavingIt'
      <3>1. Width' = Width /\ Height' = Height
        BY <2>1, Zenon DEF Width, Height
      <3>2. k' = Len(file'.lines) /\ k' >= 1
        BY <2>1, <2>4, <2>5, <2>7
      <3>3. \A c \in 1 .. cols : Csv!GetCSVData(names[c])' = Csv!GetCSVData(names[c])
        BY <2>1, ColumnsKept
      <3> QED
        BY <2>1, <2>5, <3>1, <3>2, <3>3, Zenon DEF SavingIt
    <2>10. ASSUME NEW l \in 1 .. Len(file'.lines) PROVE SavedWhole(l)'
      <3>1. CASE l \in 1 .. Len(file.lines)
        <4>1. file'.lines[l] = file.lines[l] /\ SavedWhole(l)
          BY <2>3, <2>7, <3>1
        <4> QED
          BY <2>1, <4>1, Zenon DEF SavedWhole, Width, Csv!IsInjective
      <3>2. CASE l \notin 1 .. Len(file.lines)
        <4>1. l = k + 1 /\ l # 1 /\ l - 1 = k /\ k \in 1 .. count
          BY <2>1, <2>4, <2>5, <2>7, <3>2
        <4>2. file'.lines[l] = row
          BY <2>5, <2>7, <4>1
        <4>3. ASSUME Csv!IsInjective(saved.names) PROVE row = [c \in 1 .. Width |-> saved.column[c][l - 1]]
          <5>1. \A i, j \in 1 .. cols : names[i] = names[j] => i = j
            <6>1. /\ Len(saved.names) = cols /\ saved.names \in Seq(Marks \ {Csv!Blank})
                  /\ \A c \in 1 .. cols : saved.names[c] = names[c]
              BY <1>0, <2>5, HeaderFacts
            <6>2. DOMAIN saved.names = 1 .. cols
              BY <6>1
            <6> QED
              BY <4>3, <6>1, <6>2, Zenon DEF Csv!IsInjective
          <5>2. \A c \in 1 .. cols : Csv!GetCSVData(names[c])[k] = Csv!Cell(k, c)
            BY <1>0, <4>1, <5>1, ColumnFacts
          <5>3. \A c \in 1 .. cols : saved.column[c][l - 1] = Csv!Cell(k, c)
            BY <2>5, <4>1, <5>2
          <5> QED
            BY <2>5, <5>3, Zenon DEF row
        <4> QED
          BY <2>1, <4>1, <4>2, <4>3, Zenon DEF SavedWhole, Width, Csv!IsInjective
      <3> QED
        BY <3>1, <3>2
    <2>11. \A l \in 1 .. Len(file'.lines) : SavedWhole(l)'
      BY <2>10
    <2> QED
      BY <2>2, <2>3, <2>8, <2>9, <2>11, Zenon DEF CsvSaved, SavedShape, SavingIt
  <1>5. CASE Csv!SaveClose
    <2>1. /\ pc = "save" /\ k > count /\ pc' = "idle" /\ file' = file /\ saved' = saved /\ torn' = FALSE /\ byHand' = byHand
      BY <1>5, Zenon DEF Csv!SaveClose, Csv!Return
    <2>2. ~byHand /\ SavedShape /\ SavingIt /\ \A l \in 1 .. Len(file.lines) : SavedWhole(l)
      BY <1>0, <2>1, CsvSavedParts, Zenon
    <2>3. Len(file.lines) \in Nat /\ count \in Nat /\ k \in Nat /\ Height \in Nat
      BY <2>2, SavedLengths
    <2>4. Height = count /\ k = Len(file.lines) /\ Len(file.lines) <= Height + 1
      BY <2>2 DEF SavingIt, SavedShape
    <2>5. Len(file.lines) = Height + 1
      BY <2>1, <2>3, <2>4
    <2>6. pc' # "save"
      BY <2>1
    <2>7. SavedShape'
      BY <2>1, <2>2, Zenon DEF SavedShape, Width, Height
    <2>8. ASSUME NEW l \in 1 .. Len(file'.lines) PROVE SavedWhole(l)'
      <3>1. SavedWhole(l)
        BY <2>1, <2>2, Zenon
      <3> QED
        BY <2>1, <3>1, SavedWholeKept, Zenon
    <2>9. Len(file'.lines) = (Height + 1)'
      BY <2>1, <2>5, Zenon DEF Height
    <2> QED
      BY <2>6, <2>7, <2>8, <2>9, Zenon DEF CsvSaved, SavedShape
  <1>6. CASE Csv!Crash
    <2>1. pc' = "idle" /\ saved' = saved /\ torn' = torn /\ byHand' = byHand
      BY <1>6, Zenon DEF Csv!Crash, Csv!Start
    <2>2. /\ pc # "save" => file' = file
          /\ file'.sep = file.sep /\ Len(file'.lines) <= Len(file.lines)
          /\ file' \in [sep : Csv!Separators, lines : Seq(Seq(Marks))]
          /\ \A l \in 1 .. Len(file'.lines) :
               \/ file'.lines[l] = file.lines[l]
               \/ l = Len(file'.lines) /\ file'.lines[l] \in Csv!Remains(file.lines[l])
      BY <1>0, <1>6, CsvCrashLeaves
    <2>3. pc' # "save"
      BY <2>1
    <2>4. CASE pc # "save"
      <3>1. file' = file
        BY <2>2, <2>4
      <3> QED
        BY <1>0, <2>1, <2>3, <2>4, <3>1, SavedKept, Zenon
    <2>5. CASE pc = "save"
      <3>1. ~byHand /\ torn /\ SavedShape /\ \A l \in 1 .. Len(file.lines) : SavedWhole(l)
        BY <1>0, <2>5, CsvSavedParts, Zenon
      <3>2. Len(file.lines) \in Nat /\ Height \in Nat /\ Len(file'.lines) \in Nat
        BY <2>2, <3>1, SavedLengths
      <3>3. SavedShape'
        <4>1. Len(file'.lines) <= Height + 1
          BY <2>2, <3>1, <3>2 DEF SavedShape
        <4> QED
          BY <2>1, <2>2, <3>1, <4>1, SavedShapeKept
      <3>4. ASSUME NEW l \in 1 .. Len(file'.lines), l < Len(file'.lines) PROVE SavedWhole(l)'
        <4>1. l \in 1 .. Len(file.lines) /\ l # Len(file'.lines)
          BY <2>2, <3>2, <3>4
        <4>2. file'.lines[l] = file.lines[l] /\ SavedWhole(l)
          BY <2>2, <3>1, <4>1
        <4> QED
          BY <2>1, <4>2, Zenon DEF SavedWhole, Width, Csv!IsInjective
      <3> QED
        BY <2>1, <2>3, <3>1, <3>3, <3>4, Zenon DEF CsvSaved, SavedShape
    <2> QED
      BY <2>4, <2>5
  <1> QED
    BY <1>1, <1>2, <1>3, <1>4, <1>5, <1>6, CsvKinds

\* Every step of CsvTable keeps the invariant.
LEMMA CsvInductive ==
  ASSUME CsvInv, CsvStep
  PROVE  CsvInv'
  BY CsvFileStep, CsvDataStep, CsvScalarsStep, CsvBooleansStep, CsvReadingStep, CsvSavedStep, FullRowsStep, Zenon DEF CsvInv

\* What a parse that ends well has read.
LEMMA ReadToTheEnd ==
  ASSUME CsvInv, CsvStep, pc = "rows", ret' = "true"
  PROVE  k > Len(file.lines)
  <1> USE DEF Csv!header, Csv!data, Csv!history, Csv!Return, Csv!Idle
  <1>0. ret = "none" /\ "none" # "true" /\ "false" # "true" /\ "rows" # "idle" /\ "rows" # "save"
    BY DEF CsvInv, CsvScalars
  <1>1. ASSUME NEW s, Csv!InitCSV(s) PROVE FALSE
    BY <1>0, <1>1, Zenon DEF Csv!InitCSV
  <1>2. ASSUME NEW row, Csv!AddRowCSV(row) PROVE FALSE
    BY <1>0, <1>2, Zenon DEF Csv!AddRowCSV
  <1>3. ~Csv!ParseCannotOpen /\ ~Csv!ParseHeader /\ ~Csv!ParseRow /\ ~Csv!ParseRowFails /\ ~Csv!SaveRefused
    BY <1>0, Zenon DEF Csv!ParseCannotOpen, Csv!ParseHeader, Csv!ParseRow, Csv!ParseRowFails, Csv!SaveRefused
  <1>4. ~Csv!SaveHeader /\ ~Csv!SaveRow /\ ~Csv!SaveClose /\ ~Csv!Crash
    BY <1>0, Zenon DEF Csv!SaveHeader, Csv!SaveRow, Csv!SaveClose, Csv!Crash, Csv!Start
  <1>5. ~(UNCHANGED Csv!vars)
    BY <1>0, Zenon DEF Csv!vars
  <1>6. Csv!ParseEnd
    BY <1>1, <1>2, <1>3, <1>4, <1>5, Zenon DEF CsvStep, Csv!Next
  <1> QED
    BY <1>6, Zenon DEF Csv!ParseEnd

\* A sequence that agrees with another of its length is that one.
LEMMA SameSequence ==
  ASSUME NEW V, NEW s \in Seq(V), NEW t \in Seq(V), Len(s) = Len(t), \A i \in 1 .. Len(s) : s[i] = t[i]
  PROVE  s = t
  BY SeqEqual

\* A parse that returns true has read the table that was saved.
LEMMA ComesBackLemma ==
  ASSUME CsvInv, CsvStep, pc = "rows", ret' = "true", ~byHand, start = 0, file.lines # <<>>,
         Csv!IsInjective(saved.names), sep = "comma" \/ Len(saved.names) = 1
  PROVE  /\ ~torn => count = Len(saved.column[1])
         /\ count > 0 =>
              /\ SubSeq(names, 1, cols) = saved.names
              /\ \A c \in 1 .. cols, r \in 1 .. count :
                    ~torn \/ r < count => Csv!GetCSVData(saved.names[c])[r] = saved.column[c][r]
  <1>1. /\ SavedShape
        /\ ~torn => Len(file.lines) = Height + 1
        /\ \A l \in 1 .. Len(file.lines) : l < Len(file.lines) \/ ~torn => SavedWhole(l)
    BY CsvSavedParts, Zenon DEF CsvInv
  <1>2. CsvPlace /\ CsvHeader /\ CsvFitted /\ CsvData /\ CsvFile /\ Csv!FullRowsAreRead
    BY CsvReadingParts DEF CsvInv
  <1>3. Len(file.lines) \in Nat /\ count \in Nat /\ k \in Nat /\ cols \in Nat /\ Height \in Nat /\ Width \in Nat /\ MAX_BIN \in Nat
    BY SavedLengths, CsvConstants
  <1>4. Len(file.lines) # 0
    BY DEF CsvInv, CsvFile
  <1>5. k = Len(file.lines) + 1 /\ count = Len(file.lines) - 1
    <2>1. k > Len(file.lines)
      BY ReadToTheEnd
    <2>2. k >= 2 /\ count = k - 2 /\ (k <= Len(file.lines) + 1 \/ k = 2)
      BY <1>2, <1>3 DEF CsvPlace
    <2> QED
      BY <1>3, <1>4, <2>1, <2>2
  <1>6. ASSUME ~torn PROVE count = Len(saved.column[1])
    <2>1. Len(file.lines) = Height + 1
      BY <1>1, <1>6, Zenon
    <2>2. count = Height
      BY <1>3, <1>5, <2>1
    <2> QED
      BY <2>2 DEF Height
  <1>7. ASSUME count > 0
        PROVE  /\ SubSeq(names, 1, cols) = saved.names
               /\ \A c \in 1 .. cols, r \in 1 .. count :
                     ~torn \/ r < count => Csv!GetCSVData(saved.names[c])[r] = saved.column[c][r]
    <2>0. /\ file.sep = "comma" /\ saved.names \in Seq(Marks \ {Csv!Blank}) /\ Len(saved.names) = Width
          /\ Width \in 1 .. MAX_BIN
          /\ \A c \in 1 .. Width : saved.column[c] \in Seq(Stored) /\ Len(saved.column[c]) = Height
          /\ Len(file.lines) <= Height + 1
      BY <1>1, Zenon DEF SavedShape, Width
    <2>1. file.lines[1] = saved.names
      <3>1. 1 \in 1 .. Len(file.lines) /\ 1 < Len(file.lines)
        BY <1>3, <1>5, <1>7
      <3> QED
        BY <1>1, <3>1, Zenon DEF SavedWhole
    <2>2. Csv!Tokens(saved.names) = saved.names
      <3>1. Csv!Blank \notin Marks \ {Csv!Blank}
        OBVIOUS
      <3>2. file.sep = sep \/ Len(saved.names) <= 1
        BY <2>0
      <3> QED
        BY <2>0, <3>1, <3>2, TokensOfFull, Zenon
    <2>3. Csv!First(saved.names) = saved.names
      BY <1>3, <2>0, FirstFacts
    <2>4. cols = Width /\ \A c \in 1 .. cols : names[c] = saved.names[c]
      BY <1>2, <2>0, <2>1, <2>2, <2>3, Zenon DEF CsvHeader
    <2>5. SubSeq(names, 1, cols) = saved.names
      <3>1. /\ SubSeq(names, 1, cols) \in Seq(Marks \ {Csv!Blank}) /\ Len(SubSeq(names, 1, cols)) = cols
            /\ \A c \in 1 .. cols : SubSeq(names, 1, cols)[c] = names[c]
        BY <1>2, HeaderFacts
      <3>2. /\ Len(SubSeq(names, 1, cols)) = Len(saved.names)
            /\ \A c \in 1 .. Len(SubSeq(names, 1, cols)) : SubSeq(names, 1, cols)[c] = saved.names[c]
        BY <2>0, <2>4, <3>1, Zenon
      <3> QED
        BY <2>0, <3>1, <3>2, SameSequence, Zenon
    <2>6. \A i, j \in 1 .. cols : names[i] = names[j] => i = j
      <3>1. DOMAIN saved.names = 1 .. cols
        BY <2>0, <2>4
      <3> QED
        BY <2>4, <3>1, Zenon DEF Csv!IsInjective
    <2>7. ASSUME NEW c \in 1 .. cols, NEW r \in 1 .. count, ~torn \/ r < count
          PROVE  Csv!GetCSVData(saved.names[c])[r] = saved.column[c][r]
      <3> DEFINE row == [d \in 1 .. Width |-> saved.column[d][r]]
      <3>1. /\ r + 1 \in 2 .. Len(file.lines) /\ r + 1 \in 2 .. k - 1 /\ r + 1 \in 1 .. Len(file.lines) /\ r + 1 > 1
            /\ r \in 1 .. Height /\ (r + 1) - 1 = r /\ start + (r + 1) - 1 = r
            /\ (r < count => r + 1 < Len(file.lines))
        BY <1>3, <1>5, <2>0
      <3>2. SavedWhole(r + 1)
        BY <1>1, <2>7, <3>1, Zenon
      <3>3. file.lines[r + 1] = row
        BY <3>1, <3>2, Zenon DEF SavedWhole
      <3>4. row \in Seq(Stored) /\ Len(row) = Width /\ row[c] = saved.column[c][r]
        <4>1. \A d \in 1 .. Width : saved.column[d][r] \in Stored
          BY <2>0, <3>1
        <4>2. row \in [1 .. Width -> Stored] /\ row[c] = saved.column[c][r]
          BY <2>4, <4>1
        <4> HIDE DEF row
        <4> QED
          BY <1>3, <4>2, SeqDef, LenProperties
      <3> HIDE DEF row
      <3>5. Csv!Tokens(row) = row
        <4>1. file.sep = sep \/ Len(row) <= 1
          BY <2>0, <3>4
        <4> QED
          BY <3>4, <4>1, StoredAreNoMarks, TokensOfFull, Zenon
      <3>6. row # <<>>
        BY <2>0, <3>4
      <3>7. r <= MAX_BIN
        BY <1>2, <3>1, <3>3, <3>5, <3>6, Zenon DEF CsvFitted
      <3>8. mem[r][c] = row[c]
        <4>1. Len(Csv!Tokens(file.lines[r + 1])) = cols /\ start + (r + 1) - 1 <= MAX_BIN
          BY <2>4, <3>1, <3>3, <3>4, <3>5, <3>7, Zenon
        <4>2. mem[start + (r + 1) - 1][c] = Csv!Tokens(file.lines[r + 1])[c]
          BY <1>2, <3>1, <4>1, Zenon DEF Csv!FullRowsAreRead
        <4> QED
          BY <3>1, <3>3, <3>5, <4>2, Zenon
      <3>9. Csv!GetCSVData(names[c])[r] = Csv!Cell(r, c)
        BY <1>2, <2>6, ColumnFacts
      <3>10. Csv!Cell(r, c) = mem[r][c]
        BY <3>7, Zenon DEF Csv!Cell
      <3> QED
        BY <2>4, <3>4, <3>8, <3>9, <3>10
    <2> QED
      BY <2>5, <2>7
  <1> QED
    BY <1>6, <1>7

\* That is CsvTable!ComesBackStep.
LEMMA ComesBackHolds ==
  ASSUME CsvInv, CsvStep
  PROVE  Csv!ComesBackStep
  BY ComesBackLemma, Zenon DEF Csv!ComesBackStep

\* The invariant has the types of CsvTable in it.
LEMMA CsvInvTypes == CsvInv => Csv!TypeOK
  <1> SUFFICES ASSUME CsvInv PROVE Csv!TypeOK
    OBVIOUS
  <1>1. file.sep \in Csv!Separators
    BY DEF CsvInv, CsvFile
  <1>2. DOMAIN names = 1 .. MAX_BIN
    BY DEF CsvInv, CsvData
  <1>3. CsvData /\ CsvScalars /\ CsvBooleans
    BY DEF CsvInv
  <1> QED
    BY <1>1, <1>2, <1>3, Zenon DEF Csv!TypeOK, CsvData, CsvScalars, CsvBooleans, Stored

\* The invariant holds in every state of CsvTable.
THEOREM CsvInvariant == Csv!Spec => []CsvInv
  <1>1. Csv!Init => CsvInv
    BY CsvInitHolds, HandFilesAreCsv, Zenon DEF Csv!Init
  <1>2. CsvInv /\ [Csv!Next]_(Csv!vars) => CsvInv'
    BY CsvInductive, Zenon DEF CsvStep
  <1> QED
    BY <1>1, <1>2, PTL DEF Csv!Spec

\* CsvTable!TypeOK: there are never more columns than MAX_BIN, and the cells of the table are
\* numbers or what was written over them.
THEOREM CsvTypeInvariant == Csv!Spec => []Csv!TypeOK
  BY CsvInvariant, CsvInvTypes, PTL

\* While a .csv file is read, every line with as many cells as the header is the row of its
\* number, whatever lines are between (param_parse_csv).
THEOREM FullRowsAreReadHolds == Csv!Spec => []Csv!FullRowsAreRead
  <1>1. CsvInv => Csv!FullRowsAreRead
    BY DEF CsvInv
  <1> QED
    BY CsvInvariant, <1>1, PTL

\* A saved table is read back as it was; of a save that was cut off, all but the last row
\* that is there (param_save_csv, param_parse_csv).
THEOREM ComesBackTheorem == Csv!Spec => Csv!ComesBack
  <1>1. CsvInv /\ [Csv!Next]_(Csv!vars) => [Csv!ComesBackStep]_(Csv!vars)
    BY ComesBackHolds, Zenon DEF CsvStep
  <1> QED
    BY CsvInvariant, <1>1, PTL DEF Csv!Spec, Csv!ComesBack

----------------------------------------------------------------------------

(* The two files of one param_ctx: the parameters and the table. *)

\* Each scene keeps the inductive invariant of the module it belongs to.
MCInv ==
    /\ scene \in {"hand", "save", "table", "rows"}
    /\ Txt => TxtInv
    /\ ~Txt => CsvInv

\* The scenes begin in initial states of the two modules.
LEMMA MCInitHolds == MCInit => MCInv
  <1> SUFFICES ASSUME MCInit PROVE MCInv
    OBVIOUS
  <1>1. CASE scene = "hand" /\ InitWith(HandTables, HandFiles)
    <2>1. HandTables \subseteq Tables
      BY Zenon DEF HandTables, MCTables
    <2>2. TxtInv
      BY <1>1, <2>1, TxtInitHolds, Zenon
    <2>3. Txt
      BY <1>1 DEF Txt
    <2>4. scene \in {"hand", "save", "table", "rows"}
      BY <1>1
    <2> QED
      BY <2>2, <2>3, <2>4, Zenon DEF MCInv
  <1>2. CASE scene = "save" /\ InitWith(MCTables, {<<>>})
    <2>1. MCTables \subseteq Tables
      BY Zenon DEF MCTables
    <2>2. \A f \in {<<>>} : f \in HandFiles \/ f = <<>>
      BY Zenon
    <2>3. TxtInv
      BY <1>2, <2>1, <2>2, TxtInitHolds, Zenon
    <2>4. Txt
      BY <1>2 DEF Txt
    <2>5. scene \in {"hand", "save", "table", "rows"}
      BY <1>2
    <2> QED
      BY <2>3, <2>4, <2>5, Zenon DEF MCInv
  <1>3. CASE scene = "table" /\ Csv!InitWith(HandRows)
    <2>1. CsvInv
      BY <1>3, HandRowsAreCsv, CsvInitHolds, Zenon
    <2>2. ~Txt /\ scene \in {"hand", "save", "table", "rows"}
      BY <1>3 DEF Txt
    <2> QED
      BY <2>1, <2>2, Zenon DEF MCInv
  <1>4. CASE scene = "rows" /\ Csv!InitWith(Headers)
    <2>1. CsvInv
      BY <1>4, HeadersAreCsv, CsvInitHolds, Zenon
    <2>2. ~Txt /\ scene \in {"hand", "save", "table", "rows"}
      BY <1>4 DEF Txt
    <2> QED
      BY <2>1, <2>2, Zenon DEF MCInv
  <1> QED
    BY <1>1, <1>2, <1>3, <1>4, Zenon DEF MCInit

\* In its scenes each module takes its own steps, and the other's state rests.
LEMMA MCSteps ==
  ASSUME [MCNext]_allVars, scene \in {"hand", "save", "table", "rows"}
  PROVE  /\ scene' = scene
         /\ Txt => [Next]_vars
         /\ ~Txt => CsvStep
  <1> USE DEF InTxt, InSave, InTable, InRows
  <1>0. /\ scene \in {"hand", "save"} => Txt
        /\ scene = "save" => Txt
        /\ scene \in {"table", "rows"} => ~Txt
        /\ scene = "rows" => ~Txt
    BY DEF Txt
  <1> DEFINE TxtStep == scene' = scene /\ Txt /\ Next
             RowStep == scene' = scene /\ ~Txt /\ Csv!Next
  <1>1. CASE UNCHANGED allVars
    <2>1. /\ scene' = scene
          /\ UNCHANGED <<txtOnly, csvOnly, file, err, pc, k, ret, saved, torn, byHand, crashes>>
      BY <1>1, Zenon DEF allVars
    <2>2. UNCHANGED vars
      BY <2>1, Zenon DEF txtOnly, vars, disk, context, history
    <2>3. UNCHANGED Csv!vars
      BY <2>1, Zenon DEF csvOnly, Csv!vars, Csv!header, Csv!data, Csv!history
    <2> QED
      BY <2>1, <2>2, <2>3, Zenon DEF CsvStep
  <1>2. ASSUME InTxt \/ InSave, Next PROVE TxtStep
    BY <1>0, <1>2, Zenon
  <1>3. ASSUME InTable \/ InRows, Csv!Next PROVE RowStep
    BY <1>0, <1>3, Zenon
  <1>4. ASSUME NEW j \in 1 .. MaxParams, SetVariable(j) \/ ParseParam(j) \/ ParseFail(j) \/ ParseDie(j) PROVE Next
    BY <1>4, Zenon DEF Next
  <1>5. ASSUME \/ Register \/ Crash \/ SaveNothing \/ SaveCannotOpen \/ SaveOpen \/ SaveParam \/ SaveClose
               \/ ParseCannotOpen \/ ParseOpen \/ ParseOther \/ ParseEnd
        PROVE  Next
    BY <1>5, Zenon DEF Next
  <1>6. ASSUME NEW s \in Csv!Separators, Csv!InitCSV(s) PROVE Csv!Next
    BY <1>6, Zenon DEF Csv!Next
  <1>7. ASSUME NEW row \in Csv!UpTo(Cells, MAX_BIN), Csv!AddRowCSV(row) PROVE Csv!Next
    BY <1>7, Zenon DEF Csv!Next
  <1>8. ASSUME \/ Csv!ParseCannotOpen \/ Csv!ParseHeader \/ Csv!ParseRow \/ Csv!ParseRowFails \/ Csv!ParseEnd
               \/ Csv!SaveRefused \/ Csv!SaveHeader \/ Csv!SaveRow \/ Csv!SaveClose \/ Csv!Crash
        PROVE  Csv!Next
    BY <1>8, Zenon DEF Csv!Next
  <1> HIDE DEF InTxt, InSave, InTable, InRows, TxtStep, RowStep
  <1>9. MCNext => TxtStep \/ RowStep
    BY <1>2, <1>3, <1>4, <1>5, <1>6, <1>7, <1>8, Zenon DEF MCNext
  <1>10. CASE TxtStep
    BY <1>10, Zenon DEF TxtStep
  <1>11. CASE RowStep
    BY <1>11, Zenon DEF RowStep, CsvStep
  <1> QED
    BY <1>1, <1>9, <1>10, <1>11, Zenon

\* The invariants of the two modules hold in their scenes.
LEMMA MCInductive ==
  ASSUME MCInv, [MCNext]_allVars
  PROVE  MCInv'
  <1>1. scene' = scene /\ (Txt => [Next]_vars) /\ (~Txt => CsvStep)
    BY MCSteps, Zenon DEF MCInv
  <1>2. Txt' <=> Txt
    BY <1>1, Zenon DEF Txt
  <1>3. Txt => TxtInv'
    BY <1>1, TxtInductive, Zenon DEF MCInv
  <1>4. ~Txt => CsvInv'
    BY <1>1, CsvInductive, Zenon DEF MCInv
  <1> QED
    BY <1>1, <1>2, <1>3, <1>4, Zenon DEF MCInv

\* The invariants of the two modules hold in every state of the scenes.
THEOREM MCInvariant == MCSpec => []MCInv
  <1>1. MCInit => MCInv
    BY MCInitHolds
  <1>2. MCInv /\ [MCNext]_allVars => MCInv'
    BY MCInductive
  <1> QED
    BY <1>1, <1>2, PTL DEF MCSpec

\* The types of the parameters, and of the table (ParamFile!TypeOK, CsvTable!TypeOK).
THEOREM FilesTypeOKHolds == MCSpec => []FilesTypeOK
  <1>1. MCInv => FilesTypeOK
    BY TxtInvTypes, CsvInvTypes, Zenon DEF MCInv, FilesTypeOK
  <1> QED
    BY MCInvariant, <1>1, PTL

\* A file written by hand leaves in each variable what its last good line says, and in each
\* row what the full line of its number says.
THEOREM HandFilesAreReadHolds == MCSpec => []HandFilesAreRead
  <1>1. TxtInv => ValuesAreOfFile
    BY Zenon DEF TxtInv
  <1>2. CsvInv => Csv!FullRowsAreRead
    BY Zenon DEF CsvInv
  <1>3. MCInv => HandFilesAreRead
    BY <1>1, <1>2, Zenon DEF MCInv, HandFilesAreRead
  <1> QED
    BY MCInvariant, <1>3, PTL

\* A table that was saved is read back, or its part that a crash left.
THEOREM TableComesBackHolds == MCSpec => TableComesBack
  <1>1. MCInv /\ [MCNext]_allVars => [Txt \/ Csv!ComesBackStep]_allVars
    BY MCSteps, ComesBackHolds, Zenon DEF MCInv
  <1> QED
    BY MCInvariant, <1>1, PTL DEF MCSpec, TableComesBack
=============================================================================
