------------------------------- MODULE Decode -------------------------------
(***************************************************************************)
(* internal/collector/decode.go and internal/semconv: an exported span     *)
(* becomes the span the store is given.  decodeSpan collects the           *)
(* attributes in a Go map and ranges over it, so Unflatten gets them in    *)
(* any order; each step of its trie is an action.  Then Merge reads the    *)
(* domain fields off the tree, ranging over maps again.                    *)
(***************************************************************************)
EXTENDS Attributes

CONSTANTS
    Requests,       \* what exporters send: sequences of spans, each with the
                    \* attributes of its resource
    Numeric,        \* the texts that Atoi takes -> the integer
    Upper, Lower    \* the texts whose case changes -> in the other case

\* A list of attributes: keys and what values are decoded from.
IsList(kvs) ==
    kvs \in Seq(Range(kvs)) /\ \A i \in DOMAIN kvs : kvs[i].key \in Key /\ IsValue(kvs[i].value)

ASSUME RequestsAssumption ==
    \A r \in Requests :
        /\ r \in Seq(Range(r)) /\ r # <<>>
        /\ \A i \in DOMAIN r : /\ IsList(r[i].attributes) /\ IsList(r[i].resource)
                              /\ r[i].start \in Nat /\ r[i].end \in Nat

VARIABLES
    pc,      \* "idle", "range" over the attributes, "step" in add, or "done"
    rest,    \* the spans of the request that are still to be decoded
    sent,    \* the span being decoded
    left,    \* the keys the range has not come to
    key,     \* the key being added
    cur,     \* the node add is at
    trie,
    span     \* what decodeSpan returned

vars == <<pc, rest, sent, left, key, cur, trie, span>>
-----------------------------------------------------------------------------
(* decodeAttributes, projectName, SpanKindFromAttribute.                   *)

\* The map that a list of attributes decodes to: unset values are omitted,
\* of equal keys the last counts.
FlatMap(kvs) ==
    LET set == {i \in DOMAIN kvs : kvs[i].value # NoValue} IN
    [k \in {kvs[i].key : i \in set} |->
        LET i == CHOOSE i \in set : kvs[i].key = k /\ \A j \in set : kvs[j].key = k => j <= i
        IN kvs[i].value]

flat == FlatMap(sent.attributes)

\* The value of a key, as a set that is empty when there is none.
At(map, k) == IF k \in DOMAIN map THEN {map[k]} ELSE {}

Texts(values) == {v.text : v \in {v \in values : v.type = "string"}}

\* projectName: the first of the resource's names that is not empty.
ProjectName(kvs) ==
    LET named == {i \in DOMAIN kvs : /\ kvs[i].key = <<Word("openinference"), Word("project"), Word("name")>>
                                     /\ Texts({kvs[i].value} \ {NoValue}) \ {""} # {}}
    IN IF named = {} THEN "default"
       ELSE kvs[CHOOSE i \in named : \A j \in named : i <= j].value.text

KeySpanKind == <<Word("openinference"), Word("span"), Word("kind")>>

SpanKinds == {"TOOL", "CHAIN", "LLM", "PROMPT", "RETRIEVER", "EMBEDDING", "AGENT",
              "RERANKER", "EVALUATOR", "GUARDRAIL"}

InCase(case, text) == IF text \in DOMAIN case THEN case[text] ELSE text

\* SpanKindFromAttribute; an empty or unknown text is no kind.
SpanKind(values) ==
    LET kinds == {InCase(Upper, t) : t \in Texts(values)} \cap SpanKinds
    IN IF kinds = {} THEN "UNKNOWN" ELSE CHOOSE k \in kinds : TRUE

Status(code) ==
    CASE code = "STATUS_CODE_OK" -> "OK" [] code = "STATUS_CODE_ERROR" -> "ERROR" [] OTHER -> "UNSET"

\* unixNano: an unsigned number of nanoseconds taken for a signed one.
UnixNano(n) == Wrapped(n)
-----------------------------------------------------------------------------
(* semconv.  A view is a function from paths, which stand for dotted keys,  *)
(* to values.                                                               *)

Llm(tail) == Path(<<Word("llm")>> \o tail)
Count(tail) == Llm(<<Word("token_count")>> \o tail)
KeyLLMModelName == Llm(<<Word("model_name")>>)
KeyTokenCountPrompt == Count(<<Word("prompt")>>)
KeyTokenCountCompletion == Count(<<Word("completion")>>)
KeyTokenCountTotal == Count(<<Word("total")>>)
KeyTokenCountPromptCache == Count(<<Word("prompt_details"), Word("cache_read")>>)
KeyTokenCountPromptCacheW == Count(<<Word("prompt_details"), Word("cache_write")>>)
KeyLLMInvocationParams == Llm(<<Word("invocation_parameters")>>)
KeySessionID == Path(<<Word("session"), Word("id")>>)
KeyUserID == Path(<<Word("user"), Word("id")>>)
KeyInputValue == Path(<<Word("input"), Word("value")>>)
KeyInputMimeType == Path(<<Word("input"), Word("mime_type")>>)
KeyOutputValue == Path(<<Word("output"), Word("value")>>)
KeyOutputMimeType == Path(<<Word("output"), Word("mime_type")>>)

GenAI(tail) == <<Word("gen_ai")>> \o tail
KeyGenAIOperationName == GenAI(<<Word("operation"), Word("name")>>)
KeyGenAIRequestModel == GenAI(<<Word("request"), Word("model")>>)
KeyGenAIResponseModel == GenAI(<<Word("response"), Word("model")>>)
KeyGenAIInputTokens == GenAI(<<Word("usage"), Word("input_tokens")>>)
KeyGenAIOutputTokens == GenAI(<<Word("usage"), Word("output_tokens")>>)
KeyGenAICacheRead == GenAI(<<Word("usage"), Word("cache_read"), Word("input_tokens")>>)
KeyGenAICacheWrite == GenAI(<<Word("usage"), Word("cache_creation"), Word("input_tokens")>>)

genaiSpanKinds == [chat |-> "LLM", text_completion |-> "LLM", embeddings |-> "EMBEDDING",
                   execute_tool |-> "TOOL", create_agent |-> "AGENT",
                   invoke_agent |-> "AGENT", retrieval |-> "RETRIEVER"]

Truncated(tenths) == IF tenths >= 0 THEN tenths \div 10 ELSE -((-tenths) \div 10)

\* asInt: the integer that is a value's, if it has one.
AsInt(values) ==
    {v.num : v \in {v \in values : v.type = "int"}}
        \cup {Truncated(v.tenths) : v \in {v \in values : v.type = "float"}}
        \cup {Numeric[t] : t \in Texts(values) \cap DOMAIN Numeric}

OrZero(ints) == IF ints = {} THEN 0 ELSE CHOOSE n \in ints : TRUE

\* asString.
AsString(values) == IF Texts(values) = {} THEN "" ELSE CHOOSE t \in Texts(values) : TRUE

Entries(k, values) == {<<k, v>> : v \in values}
Ints(ints) == {[type |-> "int", num |-> n] : n \in ints}
Strings(texts) == {[type |-> "string", text |-> t] : t \in texts}

\* SynthesizeFromGenAI: the entries it makes, none without a gen_ai key.
SynthesizeFromGenAI(map) ==
    LET has == \E k \in DOMAIN map : Len(k) > 1 /\ k[1] = Word("gen_ai")
        kinds == {InCase(Lower, t) : t \in Texts(At(map, KeyGenAIOperationName))}
        request == Texts(At(map, KeyGenAIRequestModel))
        response == Texts(At(map, KeyGenAIResponseModel))
        prompt == AsInt(At(map, KeyGenAIInputTokens))
        completion == AsInt(At(map, KeyGenAIOutputTokens))
    IN IF ~has THEN {}
       ELSE Entries(Path(KeySpanKind),
                    Strings({genaiSpanKinds[k] : k \in kinds \cap DOMAIN genaiSpanKinds}))
            \cup Entries(KeyLLMModelName, Strings(IF request # {} THEN request ELSE response))
            \cup Entries(KeyTokenCountPrompt, Ints(prompt))
            \cup Entries(KeyTokenCountCompletion, Ints(completion))
            \cup Entries(KeyTokenCountTotal, Ints({p + c : p \in prompt, c \in completion}))
            \cup Entries(KeyTokenCountPromptCache, Ints(AsInt(At(map, KeyGenAICacheRead))))
            \cup Entries(KeyTokenCountPromptCacheW, Ints(AsInt(At(map, KeyGenAICacheWrite))))

Keys(entries) == {e[1] : e \in entries}

Segments(at) == [i \in DOMAIN at |-> at[i][2]]

\* The steps of a place before its first step of one of these kinds.
Until(at, kinds) ==
    SubSeq(at, 1, Cardinality({i \in DOMAIN at : \A j \in 1 .. i : at[j][1] \notin kinds}))

Structure == [type |-> "structure"]

\* flattenTopLevel: maps are walked into, a map that is itself a value too;
\* an array is a leaf.
Flattened(leaves) ==
    UNION {LET l == leaf
               head == Segments(Until(l.at, {"item"}))
           IN IF Len(head) < Len(l.at) THEN {<<head, Structure>>}
              ELSE IF l.value.type = "map"
              THEN {<<head \o f, l.value.fields[f]>> : f \in DOMAIN l.value.fields}
              ELSE {<<head, l.value>>} : leaf \in leaves}

\* The entries of the tree's top level, where a key holds a dot only if it
\* was written behind a value.
TopLevel(leaves) ==
    UNION {LET tail == Until(Tail(leaf.at), {"key", "item"})
           IN {<<Segments(<<leaf.at[1]>> \o tail),
                 IF Len(tail) + 1 < Len(leaf.at) THEN Structure ELSE leaf.value>>} :
           leaf \in leaves}

\* Mutant: the synthesized entries laid down last.
MergedSynthesizedWins(map, leaves) ==
    LET syn == SynthesizeFromGenAI(map)
        explicit == Flattened(leaves)
    IN IF syn = {} THEN TopLevel(leaves)
       ELSE syn \cup {e \in explicit : e[1] \notin Keys(syn)}

\* Merge: what Extract is given.
Merged(map, leaves) ==
    LET syn == SynthesizeFromGenAI(map)
        explicit == Flattened(leaves)
    IN IF syn = {} THEN TopLevel(leaves)
       ELSE explicit \cup {e \in syn : e[1] \notin Keys(explicit)}

\* The maps that entries written in some order leave: of those with the same
\* key any may be the last.
Views(entries) ==
    LET values(k) == {e[2] : e \in {e \in entries : e[1] = k}}
        disputed == {k \in Keys(entries) : Cardinality(values(k)) > 1}
    IN {[k \in Keys(entries) |-> IF k \in disputed THEN win[k]
                                 ELSE CHOOSE v \in values(k) : TRUE] :
          win \in {w \in [disputed -> {e[2] : e \in entries}] :
                      \A k \in disputed : w[k] \in values(k)}}

MimeType(values) ==
    IF Texts(values) \cap {"application/json", "text/json", "json"} # {} THEN "json" ELSE "text"

\* extractIO: a text, or the JSON text of a structure.
ExtractIO(view, valueKey, mimeKey) ==
    LET v == At(view, valueKey)
        structured == {x \in v : x.type \in {"structure", "map", "list"}}
    IN IF structured # {} THEN [value |-> "{}", mime |-> "json"]
       ELSE IF AsString(v) = "" THEN NoValue
       ELSE [value |-> AsString(v), mime |-> MimeType(At(view, mimeKey))]

\* Mutant: the total of a prompt without the completion beside it.
ExtractTokenUsagePromptFirst(view) ==
    LET p == AsInt(At(view, KeyTokenCountPrompt))
        c == AsInt(At(view, KeyTokenCountCompletion))
        t == AsInt(At(view, KeyTokenCountTotal))
        read == OrZero(AsInt(At(view, KeyTokenCountPromptCache)))
        write == OrZero(AsInt(At(view, KeyTokenCountPromptCacheW)))
    IN IF p = {} /\ c = {} /\ t = {} /\ read = 0 /\ write = 0 THEN {}
       ELSE {[prompt |-> OrZero(p), completion |-> OrZero(c),
              cacheRead |-> read, cacheWrite |-> write,
              total |-> OrZero(IF t # {} THEN t ELSE IF p # {} THEN p ELSE c)]}

\* extractTokenUsage: none when nothing is counted.
ExtractTokenUsage(view) ==
    LET p == AsInt(At(view, KeyTokenCountPrompt))
        c == AsInt(At(view, KeyTokenCountCompletion))
        t == AsInt(At(view, KeyTokenCountTotal))
        read == OrZero(AsInt(At(view, KeyTokenCountPromptCache)))
        write == OrZero(AsInt(At(view, KeyTokenCountPromptCacheW)))
    IN IF p = {} /\ c = {} /\ t = {} /\ read = 0 /\ write = 0 THEN {}
       ELSE {[prompt |-> OrZero(p), completion |-> OrZero(c),
              cacheRead |-> read, cacheWrite |-> write,
              total |-> IF t # {} THEN OrZero(t) ELSE OrZero(p) + OrZero(c)]}

\* Extract and applyExtracted.
Extract(view) ==
    [usage |-> ExtractTokenUsage(view),
     input |-> ExtractIO(view, KeyInputValue, KeyInputMimeType),
     output |-> ExtractIO(view, KeyOutputValue, KeyOutputMimeType),
     model |-> AsString(At(view, KeyLLMModelName)),
     session |-> AsString(At(view, KeySessionID)),
     user |-> AsString(At(view, KeyUserID)),
     params |-> AsString(At(view, KeyLLMInvocationParams))]

\* An event keeps its attributes flat.
DecodeEvents(events) ==
    [i \in DOMAIN events |-> [time |-> UnixNano(events[i].time),
                              attributes |-> FlatMap(events[i].attributes)]]
-----------------------------------------------------------------------------
Init ==
    /\ pc = "idle" /\ rest \in Requests /\ sent = rest[1]
    /\ left = {} /\ key = <<>> /\ cur = Root /\ trie = NewTrie
    /\ span = NoValue

\* Mutant: one trie for all spans.
NextSpanKeepsTrie ==
    /\ pc \in {"idle", "done"} /\ rest # <<>>
    /\ sent' = Head(rest) /\ rest' = Tail(rest)
    /\ left' = DOMAIN FlatMap(sent'.attributes)
    /\ pc' = "range" /\ span' = NoValue
    /\ UNCHANGED <<key, cur, trie>>

\* DecodeSpans goes on to the next span: decodeAttributes, and a new trie.
NextSpan ==
    /\ pc \in {"idle", "done"} /\ rest # <<>>
    /\ sent' = Head(rest) /\ rest' = Tail(rest)
    /\ left' = DOMAIN FlatMap(sent'.attributes)
    /\ trie' = NewTrie
    /\ pc' = "range" /\ span' = NoValue
    /\ UNCHANGED <<key, cur>>

\* DecodeSpans has returned.
Returned == pc = "done" /\ rest = <<>> /\ UNCHANGED vars

Loaded(k) == LoadJSONString(k, flat[k])

\* add passes over nil values and keys without segments.
Skip(k) ==
    /\ pc = "range" /\ k \in left
    /\ Loaded(k) = NoValue \/ Path(k) = <<>>
    /\ left' = left \ {k}
    /\ UNCHANGED <<pc, rest, sent, key, cur, trie, span>>

Take(k) ==
    /\ pc = "range" /\ k \in left
    /\ Loaded(k) # NoValue /\ Path(k) # <<>>
    /\ left' = left \ {k}
    /\ key' = k /\ cur' = Root /\ pc' = "step"
    /\ UNCHANGED <<rest, sent, trie, span>>

\* The segment that add is at, and whether it is the last.
seg == Path(key)[Len(cur) + 1]
last == Len(cur) + 1 = Len(Path(key))

Stepping == pc = "step" /\ Len(cur) < Len(Path(key))

\* step: a word, or digits where the node has branches already.
StepBranch ==
    /\ Stepping
    /\ ~IsIndex(seg) \/ (~last /\ HasBranches(trie, cur))
    /\ cur' = Child(cur, "branch", seg)
    /\ trie' = WithNode(trie, cur')
    /\ UNCHANGED <<pc, rest, sent, left, key, span>>

StepIndex ==
    /\ Stepping
    /\ IsIndex(seg) /\ ~last /\ ~HasBranches(trie, cur)
    /\ cur' = Child(cur, "index", seg)
    /\ trie' = WithNode(trie, cur')
    /\ UNCHANGED <<pc, rest, sent, left, key, span>>

\* Digits that end the key: an index of that number is deleted.
StepLastDigits ==
    /\ Stepping
    /\ IsIndex(seg) /\ last
    /\ cur' = Child(cur, "branch", seg)
    /\ trie' = WithNode(WithoutSubtree(trie, Child(cur, "index", seg)), cur')
    /\ UNCHANGED <<pc, rest, sent, left, key, span>>

SetValue ==
    /\ pc = "step" /\ Len(cur) = Len(Path(key))
    /\ trie' = [Demoted(trie, cur) EXCEPT ![cur] = Loaded(key)]
    /\ pc' = "range"
    /\ UNCHANGED <<rest, sent, left, key, cur, span>>

\* Materialization, Merge, and the fields that come from elsewhere.
Finish ==
    /\ pc = "range" /\ left = {}
    /\ \E view \in Views(Merged(flat, Materialized(trie))) :
          span' = [project |-> ProjectName(sent.resource),
                   attributes |-> Materialized(trie),
                   kind |-> SpanKind(At(flat, KeySpanKind)),
                   status |-> Status(sent.status),
                   start |-> UnixNano(sent.start), end |-> UnixNano(sent.end),
                   events |-> DecodeEvents(sent.events),
                   extracted |-> Extract(view)]
    /\ pc' = "done"
    /\ UNCHANGED <<rest, sent, left, key, cur, trie>>

Next ==
    \/ NextSpan \/ Returned
    \/ \E k \in left : Skip(k) \/ Take(k)
    \/ StepBranch \/ StepIndex \/ StepLastDigits \/ SetValue
    \/ Finish

Spec == Init /\ [][Next]_vars
-----------------------------------------------------------------------------
(* Properties. *)

\* The trie is a tree whose positions carry no value, add is at one of its
\* nodes on the way its key spells, and what is decoded has trace.Span's types.
TypeOK ==
    /\ pc \in {"idle", "range", "step", "done"}
    /\ left \subseteq DOMAIN flat
    /\ Root \in DOMAIN trie /\ ~HasValue(trie, Root)
    /\ \A a \in DOMAIN trie \ {Root} :
          /\ Above(a, Len(a) - 1) \in DOMAIN trie
          /\ a[Len(a)].track = "index" => ~HasValue(trie, a)
    /\ pc = "step" => /\ cur \in DOMAIN trie /\ key \in DOMAIN flat
                      /\ Spells(cur, Above(Path(key), Len(cur)))
    /\ pc = "done" => /\ span.kind \in SpanKinds \cup {"UNKNOWN"} /\ span.project # ""
                      /\ span.start \in -IntSize .. IntSize /\ span.end \in -IntSize .. IntSize

\* The attributes Unflatten takes, and their paths.
Named == {k \in DOMAIN flat : Loaded(k) # NoValue /\ Path(k) # <<>>}
Paths == {Path(k) : k \in Named}

Kept(k) == \E a \in Visible(trie) : Spells(a, Path(k)) /\ trie[a] = Loaded(k)

\* Whatever the order, a value of the tree is that of an attribute of this
\* span and stands where its key says: demotion moves subtrees to the keys
\* they had, and nothing comes from another span.
NothingInvented ==
    \A a \in DOMAIN trie : HasValue(trie, a) =>
        \E k \in Named : Spells(a, Path(k)) /\ trie[a] = Loaded(k)

\* "Observability data must never be dropped wholesale": an attribute is in
\* the tree, or another one with the same path is, or it goes through a
\* position of a node whose children are positions and plain keys mixed.
LossExplained ==
    pc = "done" => \A k \in Named :
        \/ Clashes(Paths, Path(k))
        \/ \E j \in Named : Path(j) = Path(k) /\ Kept(j)

\* Unflatten's rules: when no node mixes its children, the tree is what the
\* set of keys says, the order in which the map was ranged over regardless.
OrderIsIrrelevant ==
    pc = "done" /\ (\A p \in Paths : ~Clashes(Paths, p)) =>
        /\ {l.at : l \in span.attributes} = {Expected(Paths, p) : p \in Paths}
        /\ Cardinality(span.attributes) = Cardinality(Paths)
        /\ \A l \in span.attributes : \E k \in Named :
              l = [at |-> Expected(Paths, Path(k)), value |-> Loaded(k)]

\* What attribute k says of the dotted key `path`: as its value, or as a field
\* of a map that is its value.
Says(k, path) ==
    LET v == Loaded(k) IN
    IF v.type = "map" THEN {v.fields[f] : f \in {f \in DOMAIN v.fields : Path(k) \o f = path}}
    ELSE {x \in {v} : Path(k) = path}

\* All that is said of it, an array's elements by their own keys.
Explicit(path) ==
    (UNION {Says(k, path) : k \in Named})
        \cup {x \in {Structure} : \E p \in Paths :
                 IsStrictPrefix(path, p) /\ IsIndex(p[Len(path) + 1])}

\* Of attributes with one path a single one is kept: something is said of
\* `path` for certain when all of those say something.
Settled(path) ==
    \E p \in Paths : \A k \in Named : Path(k) = p => Says(k, path) # {}

CountKeys ==
    [prompt |-> KeyTokenCountPrompt, completion |-> KeyTokenCountCompletion,
     cacheRead |-> KeyTokenCountPromptCache, cacheWrite |-> KeyTokenCountPromptCacheW]

\* A count of the span, zero without a usage.
Shown(count) == OrZero({u[count] : u \in span.extracted.usage})

\* "When both forms exist, the explicitly set convention attribute wins":
\* beside gen_ai attributes, the model and the counts for which there are
\* convention attributes are what one of those says, in whatever order maps
\* that yield a key twice are walked.
ExplicitWins ==
    pc = "done" /\ SynthesizeFromGenAI(flat) # {} =>
        /\ Settled(KeyLLMModelName) =>
              \E v \in Explicit(KeyLLMModelName) : span.extracted.model = AsString({v})
        /\ \A count \in DOMAIN CountKeys : Settled(CountKeys[count]) =>
              \E v \in Explicit(CountKeys[count]) : Shown(count) = OrZero(AsInt({v}))
        /\ Settled(KeyTokenCountTotal) =>
              \E v \in Explicit(KeyTokenCountTotal) : AsInt({v}) \subseteq {Shown("total")}

\* A total is the sum of the two counts beside it, or was sent, or is the sum
\* of the two gen_ai counts, which stays when explicit counts replace them.
TotalExplained ==
    pc = "done" => \A u \in span.extracted.usage :
        \/ u.total = u.prompt + u.completion
        \/ u.total \in AsInt({e[2] : e \in {e \in Flattened(span.attributes) : e[1] = KeyTokenCountTotal}})
        \/ <<KeyTokenCountTotal, [type |-> "int", num |-> u.total]>> \in SynthesizeFromGenAI(flat)

\* "any branch sibling demotes all indices to branches", "both are
\* preserved": every attribute is in the tree, or another one of its path.
NothingLost ==
    pc = "done" => \A k \in Named : \E j \in Named : Path(j) = Path(k) /\ Kept(j)
=============================================================================
