------------------------------ MODULE MCDecode ------------------------------
(* Attribute sets for TLC.  Some are all the small sets of keys that share *)
(* a node "a": positions, plain keys, values on the way, digits padded and *)
(* too long for an int of 7 bits.  The others are conventions in their two *)
(* forms, with values of every type that is read.                          *)
EXTENDS Decode, FiniteSetsExt, TLC

CONSTANTS MaxShapes, MaxConventions

MCIntSize == 128

Int7(n) == [type |-> "int", num |-> n]
Str(t) == [type |-> "string", text |-> t]
Float(n) == [type |-> "float", tenths |-> n]
Map(f, v) == [type |-> "map", fields |-> Path(f) :> v]
Attr(k, v) == [key |-> k, value |-> v]

a == Word("a")
b == Word("b")

Shapes ==
    {Attr(<<a>>, Int7(1)),
     Attr(<<a, b>>, Int7(2)),
     Attr(<<a, Digits(<<0>>)>>, Int7(3)),
     Attr(<<a, Digits(<<0>>), b>>, Int7(4)),
     Attr(<<a, Digits(<<3>>), b>>, Int7(5)),
     Attr(<<a, Digits(<<1, 2>>), b>>, Int7(6)),
     Attr(<<a, Word(""), Digits(<<0, 0>>), b>>, Int7(7)),
     Attr(<<a, Digits(<<1, 2, 8>>), b>>, Int7(8)),
     Attr(<<a, Digits(<<6, 4>>), b>>, Int7(9)),
     Attr(<<a, Digits(<<0>>), Digits(<<1>>), b>>, Int7(10)),
     Attr(<<Digits(<<0>>), b>>, Int7(11)),
     Attr(<<Word("")>>, Int7(12))}

llm == Word("llm")
counts == Word("token_count")
prompt == Word("prompt")

Conventions ==
    {Attr(<<llm, counts, prompt>>, Int7(10)),
     Attr(<<llm, counts, Word("completion")>>, Float(79)),
     Attr(<<llm, counts>>, Map(<<prompt>>, Int7(5))),
     Attr(<<llm>>, Str("x")),
     Attr(<<llm, Word("model_name")>>, Str("m1")),
     Attr(KeyGenAIInputTokens, Str("3")),
     Attr(KeyGenAIOutputTokens, Int7(2)),
     Attr(KeyGenAIRequestModel, Int7(1)),
     Attr(KeyGenAIResponseModel, Str("m2"))}

\* Lists that no set of attributes is: repeated keys, unset values, texts
\* that are JSON, the kinds.
Lists ==
    {<<Attr(KeySpanKind, Str("llm")), Attr(KeyGenAIOperationName, Str("Chat")),
       Attr(<<Word("session")>>, Str("s")), Attr(<<Word("session"), Word("id")>>, Str("s1"))>>,
     <<Attr(<<llm, counts, prompt>>, Int7(1)), Attr(<<llm, counts, prompt>>, Int7(2)),
       Attr(<<llm, counts, prompt>>, NoValue), Attr(KeyGenAICacheRead, Int7(1)),
       Attr(<<Word("output"), Word("value")>>, [type |-> "list", items |-> <<>>])>>,
     <<Attr(<<Word("metadata")>>, Str("null")), Attr(<<Word("metadata"), b>>, Str("null")),
       Attr(<<llm, counts, Word("total")>>, Int7(6)),
       Attr(<<Word("input"), Word("value"), b>>, Str("q")), Attr(<<Word("input"), Word("value")>>, Str("q"))>>,
     <<Attr(<<llm, Word("model_name")>>, Map(<<b>>, Int7(1))), Attr(KeyGenAIRequestModel, Str("m1"))>>,
     <<Attr(<<llm, counts>>, Map(<<Word("completion")>>, Int7(4))),
       Attr(<<llm, counts, Word("completion"), Digits(<<0>>), b>>, Int7(1)),
       Attr(KeyGenAIOutputTokens, Int7(2))>>,
     <<Attr(<<Word("metadata")>>, Str("{b:1}")), Attr(<<Word("input")>>, Str("i")),
       Attr(KeyGenAICacheWrite, Float(-19)), Attr(<<Word("user"), Word("id")>>, Str("u")),
       Attr(<<Word("input"), Word("value"), b>>, Str("q")), Attr(KeySpanKind, Int7(1))>>}

MCJsonKeys == {<<Word("metadata")>>}
MCJson == ("null" :> NoValue) @@ ("{b:1}" :> Map(<<b>>, Int7(1)))
MCNumeric == ("3" :> 3)
MCUpper == ("llm" :> "LLM")
MCLower == ("Chat" :> "chat")

Named2 == Attr(<<Word("openinference"), Word("project"), Word("name")>>, Str(""))

Export(attributes) ==
    [attributes |-> attributes,
     resource |-> <<Named2, [Named2 EXCEPT !.value = Str("p")]>>,
     events |-> <<[time |-> 2, attributes |-> <<Attr(<<a, b>>, NoValue), Attr(<<a>>, Str("x"))>>]>>,
     status |-> "STATUS_CODE_ERROR", start |-> 1, end |-> 127]

AttributeSets ==
    UNION {kSubset(n, Shapes) : n \in 0 .. MaxShapes}
        \cup UNION {kSubset(n, Conventions) : n \in 0 .. MaxConventions}

\* One span in most requests; in the last, one after another.
MCRequests ==
    {<<Export(SetToSeq(S))>> : S \in AttributeSets}
        \cup {SetToSeq({Export(list) : list \in Lists})}

\* The keys of TestUnflattenArraysOnlyForMappings' mixed node.
MCScalarSibling ==
    {<<Export(<<Attr(<<a, Digits(<<0>>)>>, Str("scalar first")),
                Attr(<<a, Digits(<<1>>), b>>, Str("nested"))>>)>>}
=============================================================================
