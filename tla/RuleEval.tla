------------------------------ MODULE RuleEval ------------------------------
(* What a mail rule does to a message: rules.py (the condition tree, its JSON  *)
(* form, its compilation and its three-valued evaluation over the facts of a   *)
(* parsed message) and evaluate_filter_message in filter_bridge.py, which runs *)
(* a published rule list over one message.  The machine takes one rule list    *)
(* and one message through the evaluation; the properties compare its result   *)
(* with a reference definition that reads the documents directly.              *)
(* Text is a sequence of letters, upper and lower case.                        *)
EXTENDS Naturals, Sequences, FiniteSets, SequencesExt

CONSTANTS RuleLists, RawMessages,     \* the inputs
          MaxRuleDepth, MaxRuleNodes, \* MAX_RULE_DEPTH, MAX_RULE_NODES
          MaxParts, MaxMimeDepth, MaxHeaders,  \* the limits of the message parser
          MaxPosition,                \* positions are below it
          None,
          Bad                         \* a RuleValidationError or a RuleMessageError

\* What every instance has to give; the MC modules assume it of theirs.
RuleBounds ==
    MaxRuleDepth \in Nat /\ MaxRuleNodes \in Nat /\ MaxParts \in Nat /\ MaxMimeDepth \in Nat

VARIABLES rules, raw,  \* the published rule list and the message, as given
          pc, i,       \* the stage, and the rule it has come to
          prepared,    \* enabled rules that are compiled
          facts,       \* the RuleMessage
          target       \* the mailbox to file into

vars == <<rules, raw, pc, i, prepared, facts, target>>

Truth(b) == IF b THEN "true" ELSE "false"

StringFields == {"from", "to", "cc", "bcc", "reply_to", "subject", "list_id", "header"}
StringOperators == {"equals", "not_equals", "contains", "not_contains", "starts_with",
                    "ends_with", "exists"}
NumericOperators == {"eq", "lt", "lte", "gt", "gte"}

------------------------------------------------------------------------------
(* Text.                                                                       *)

FoldLetter(c) == CASE c = "A" -> "a" [] c = "B" -> "b" [] OTHER -> c
Casefold(text) == [k \in DOMAIN text |-> FoldLetter(text[k])]
Within(needle, text) ==
    \E k \in 0..Len(text) : k + Len(needle) <= Len(text) /\ SubSeq(text, k + 1, k + Len(needle)) = needle

------------------------------------------------------------------------------
(* From a document to a condition.  A condition is a record whose "is" names    *)
(* the class; a document has the keys of the JSON object.                      *)

HasKeys(d, keys) == DOMAIN d = keys

\* StringCondition: header only with the header field, a value unless "exists".
ParseString(d) ==
    IF /\ "operator" \in DOMAIN d /\ d.operator \in StringOperators
       /\ HasKeys(d, {"field", "operator"}
                     \cup (IF d.field = "header" THEN {"header"} ELSE {})
                     \cup (IF d.operator = "exists" THEN {} ELSE {"value"}))
       /\ d.field = "header" => Len(d.header) > 0
       /\ d.operator # "exists" => Len(d.value) > 0
    THEN [is |-> "string", field |-> d.field, operator |-> d.operator,
          header |-> IF d.field = "header" THEN Casefold(d.header) ELSE None,
          value |-> IF d.operator = "exists" THEN None ELSE d.value]
    ELSE Bad

\* NumericCondition and BooleanCondition.
ParseScalar(d) ==
    IF /\ HasKeys(d, {"field", "operator", "value"})
       /\ d.operator \in IF d.field = "size" THEN NumericOperators ELSE {"eq"}
    THEN [is |-> IF d.field = "size" THEN "numeric" ELSE "boolean",
          field |-> d.field, operator |-> d.operator, value |-> d.value]
    ELSE Bad

Children(c) == CASE c.is \in {"and", "or"} -> c.conditions
                 [] c.is = "not" -> <<c.condition>>
                 [] OTHER -> <<>>

\* A budget that lets the limits be passed by one.
RECURSIVE LooseBudget(_, _)
LooseBudget(stack, nodes) ==
    \/ stack = <<>>
    \/ LET top == Last(stack)
       IN  /\ nodes + 1 <= MaxRuleNodes + 1 /\ top.depth <= MaxRuleDepth + 1
           /\ LooseBudget(Front(stack) \o [k \in DOMAIN Children(top.node) |->
                                [node |-> Children(top.node)[k], depth |-> top.depth + 1]], nodes + 1)

\* _validate_condition_budget, from its stack and its count of nodes.
RECURSIVE WithinBudget(_, _)
WithinBudget(stack, nodes) ==
    \/ stack = <<>>
    \/ LET top == Last(stack)
       IN  /\ nodes + 1 <= MaxRuleNodes /\ top.depth <= MaxRuleDepth
           /\ WithinBudget(Front(stack) \o [k \in DOMAIN Children(top.node) |->
                                 [node |-> Children(top.node)[k], depth |-> top.depth + 1]], nodes + 1)

Budgeted(c) == IF WithinBudget(<<[node |-> c, depth |-> 1]>>, 0) THEN c ELSE Bad

\* condition_from_mapping
RECURSIVE ConditionFromMapping(_, _)
ConditionFromMapping(d, depth) ==
    IF depth > MaxRuleDepth THEN Bad
    ELSE IF "op" \in DOMAIN d
    THEN CASE d.op \in {"and", "or"} /\ HasKeys(d, {"op", "conditions"}) ->
                LET parsed == [k \in DOMAIN d.conditions |->
                                  ConditionFromMapping(d.conditions[k], depth + 1)]
                IN  IF \/ Len(parsed) > MaxRuleNodes \/ parsed = <<>>
                       \/ \E k \in DOMAIN parsed : parsed[k] = Bad
                    THEN Bad ELSE Budgeted([is |-> d.op, conditions |-> parsed])
           [] d.op = "not" /\ HasKeys(d, {"op", "condition"}) ->
                LET parsed == ConditionFromMapping(d.condition, depth + 1)
                IN  IF parsed = Bad THEN Bad ELSE Budgeted([is |-> "not", condition |-> parsed])
           [] OTHER -> Bad
    ELSE IF "field" \notin DOMAIN d THEN Bad
    ELSE LET leaf == CASE d.field \in StringFields -> ParseString(d)
                       [] d.field \in {"size", "has_attachment"} -> ParseScalar(d)
                       [] OTHER -> Bad
         IN  IF leaf = Bad THEN Bad ELSE Budgeted(leaf)

\* A rendering that leaves the header name out.
RECURSIVE MappingWithoutHeader(_)
MappingWithoutHeader(c) ==
    CASE c.is \in {"and", "or"} ->
           [op |-> c.is, conditions |-> [k \in DOMAIN c.conditions |-> MappingWithoutHeader(c.conditions[k])]]
      [] c.is = "not" -> [op |-> "not", condition |-> MappingWithoutHeader(c.condition)]
      [] c.is = "string" /\ c.value = None -> [field |-> c.field, operator |-> c.operator]
      [] OTHER -> [field |-> c.field, operator |-> c.operator, value |-> c.value]

\* condition_to_mapping, the form that is stored and published.
RECURSIVE ConditionToMapping(_)
ConditionToMapping(c) ==
    CASE c.is \in {"and", "or"} ->
           [op |-> c.is, conditions |-> [k \in DOMAIN c.conditions |-> ConditionToMapping(c.conditions[k])]]
      [] c.is = "not" -> [op |-> "not", condition |-> ConditionToMapping(c.condition)]
      [] OTHER ->
           LET keys == {"field", "operator"}
                       \cup (IF c.is = "string" /\ c.header # None THEN {"header"} ELSE {})
                       \cup (IF c.is = "string" /\ c.value = None THEN {} ELSE {"value"})
           IN  [k \in keys |-> c[k]]

\* _compile_condition: operands are case-folded once.
RECURSIVE CompileCondition(_)
CompileCondition(c) ==
    CASE c.is \in {"and", "or"} ->
           [c EXCEPT !.conditions = [k \in DOMAIN c.conditions |-> CompileCondition(c.conditions[k])]]
      [] c.is = "not" -> [c EXCEPT !.condition = CompileCondition(c.condition)]
      [] c.is = "string" /\ c.value # None -> [c EXCEPT !.value = Casefold(@)]
      [] OTHER -> c

------------------------------------------------------------------------------
(* From raw bytes to facts.  A raw message has header fields, each a sequence  *)
(* of fragments (encoded words and plain text), and a tree of MIME parts.      *)

\* _decode_header_value: the fragments joined and case-folded.
DecodeHeader(h) ==
    IF \E k \in DOMAIN h.fragments : h.fragments[k] = Bad THEN Bad
    ELSE Casefold(FlattenSeq(h.fragments))

\* _bounded_parts: the parts in document order with their depth.
RECURSIVE PartsFrom(_, _)
PartsFrom(part, depth) ==
    <<[part |-> part, depth |-> depth]>>
        \o FlattenSeq([k \in DOMAIN part.children |-> PartsFrom(part.children[k], depth + 1)])

\* _has_attachment: the root is one only if it says so.
HasAttachment(parts) ==
    \E k \in DOMAIN parts :
        \/ parts[k].part.disposition = "attachment"
        \/ k > 1 /\ (parts[k].part.named \/ parts[k].part.embedded)

\* parse_rule_message
ParseRuleMessage(message) ==
    LET parts == PartsFrom(message.root, 0)
        headers == [k \in DOMAIN message.headers |->
                      [name |-> Casefold(message.headers[k].name), value |-> DecodeHeader(message.headers[k])]]
    IN  IF \/ Len(headers) > MaxHeaders
           \/ \E k \in DOMAIN headers : headers[k].value = Bad
           \/ Len(parts) > MaxParts
           \/ \E k \in DOMAIN parts : parts[k].depth > MaxMimeDepth \/ parts[k].part.defective
        THEN Bad
        ELSE [headers |-> headers, size |-> message.size, attachment |-> HasAttachment(parts)]

------------------------------------------------------------------------------
(* Evaluation.                                                                 *)

\* RuleMessage.string_values
StringValues(c, m) ==
    LET name == IF c.field = "header" THEN c.header ELSE <<c.field>>
    IN  {m.headers[k].value : k \in {k \in DOMAIN m.headers : m.headers[k].name = name}}

\* Negative tests of a header that is absent hold.
StringResultAbsent(c, m) ==
    LET values == StringValues(c, m)
    IN  CASE c.operator = "exists" -> Truth(values # {})
          [] values = {} /\ c.operator \notin {"not_equals", "not_contains"} -> "unknown"
          [] c.operator = "not_equals" -> Truth(c.value \notin values)
          [] c.operator = "not_contains" -> Truth(\A v \in values : ~Within(c.value, v))
          [] c.operator = "equals" -> Truth(c.value \in values)
          [] c.operator = "contains" -> Truth(\E v \in values : Within(c.value, v))
          [] c.operator = "starts_with" -> Truth(\E v \in values : IsPrefix(c.value, v))
          [] OTHER -> Truth(\E v \in values : IsSuffix(c.value, v))

\* _string_result
StringResult(c, m) ==
    LET values == StringValues(c, m)
    IN  CASE c.operator = "exists" -> Truth(values # {})
          [] values = {} -> "unknown"
          [] c.operator = "equals" -> Truth(c.value \in values)
          [] c.operator = "not_equals" -> Truth(c.value \notin values)
          [] c.operator = "contains" -> Truth(\E v \in values : Within(c.value, v))
          [] c.operator = "not_contains" -> Truth(\A v \in values : ~Within(c.value, v))
          [] c.operator = "starts_with" -> Truth(\E v \in values : IsPrefix(c.value, v))
          [] OTHER -> Truth(\E v \in values : IsSuffix(c.value, v))

\* _numeric_result
NumericResult(c, m) ==
    Truth(CASE c.operator = "eq" -> m.size = c.value
            [] c.operator = "lt" -> m.size < c.value
            [] c.operator = "lte" -> m.size <= c.value
            [] c.operator = "gt" -> m.size > c.value
            [] OTHER -> m.size >= c.value)

\* The loops of "and" and "or": the first decisive child ends them.
Decided(results, decisive, otherwise) ==
    IF \E k \in DOMAIN results : results[k] = decisive THEN decisive
    ELSE IF \E k \in DOMAIN results : results[k] = "unknown" THEN "unknown"
    ELSE otherwise

\* _evaluate_condition
RECURSIVE Evaluate(_, _)
Evaluate(c, m) ==
    CASE c.is = "string" -> StringResult(c, m)
      [] c.is = "numeric" -> NumericResult(c, m)
      [] c.is = "boolean" -> Truth(m.attachment = c.value)
      [] c.is = "not" -> LET r == Evaluate(c.condition, m)
                         IN  IF r = "unknown" THEN r ELSE Truth(r = "false")
      [] OTHER -> LET results == [k \in DOMAIN c.conditions |-> Evaluate(c.conditions[k], m)]
                  IN  IF c.is = "and" THEN Decided(results, "false", "true")
                                      ELSE Decided(results, "true", "false")

\* CompiledRule.matches
Matches(rule, m) == Evaluate(rule.condition, m) = "true"

------------------------------------------------------------------------------
(* evaluate_filter_message: one action per rule of its loops.                  *)

Init ==
    /\ rules \in RuleLists /\ raw \in RawMessages
    /\ pc = "prepare" /\ i = 1 /\ prepared = <<>>
    /\ facts = None /\ target = None

\* The call ends without a target (FilterBridgeError, RuleValidationError, or a
\* message that cannot be parsed within its limits).
Fail ==
    /\ pc' = "done" /\ target' = None
    /\ UNCHANGED <<rules, raw, i, prepared, facts>>

MetadataValid(k) ==
    /\ rules[k].position < MaxPosition
    /\ \A j \in 1..(k - 1) : rules[j].id # rules[k].id

\* Disabled rules are checked for their metadata only.
PrepareRule ==
    /\ pc = "prepare" /\ i <= Len(rules)
    /\ LET r == rules[i]
           condition == ConditionFromMapping(r.condition, 1)
       IN  \/ ~(MetadataValid(i) /\ (r.enabled => condition # Bad)) /\ Fail
           \/ /\ MetadataValid(i) /\ (r.enabled => condition # Bad)
              /\ prepared' = IF r.enabled
                             THEN Append(prepared, [position |-> r.position, stop |-> r.stop,
                                                    target |-> r.target,
                                                    condition |-> CompileCondition(condition)])
                             ELSE prepared
              /\ i' = i + 1
              /\ UNCHANGED <<rules, raw, pc, facts, target>>

\* Positions must differ; then the message is parsed, and the rules are sorted.
ParseMessage ==
    /\ pc = "prepare" /\ i > Len(rules)
    /\ LET distinct == Cardinality({prepared[k].position : k \in DOMAIN prepared}) = Len(prepared)
           m == ParseRuleMessage(raw)
       IN  \/ ~(distinct /\ m # Bad) /\ Fail
           \/ /\ distinct /\ m # Bad
              /\ facts' = m
              /\ prepared' = SortSeq(prepared, LAMBDA a, b : a.position < b.position)
              /\ pc' = "match" /\ i' = 1
              /\ UNCHANGED <<rules, raw, target>>

\* A match takes the place of an earlier one; stop_processing ends the loop.
MatchRule ==
    /\ pc = "match" /\ i <= Len(prepared)
    /\ LET hit == Matches(prepared[i], facts)
       IN  /\ target' = IF hit THEN prepared[i].target ELSE target
           /\ pc' = IF hit /\ prepared[i].stop THEN "done" ELSE pc
           /\ i' = i + 1
    /\ UNCHANGED <<rules, raw, prepared, facts>>

EndOfRules ==
    /\ pc = "match" /\ i > Len(prepared)
    /\ pc' = "done"
    /\ UNCHANGED <<rules, raw, i, prepared, facts, target>>

Done == pc = "done" /\ UNCHANGED vars

Next == PrepareRule \/ ParseMessage \/ MatchRule \/ EndOfRules \/ Done

Spec == Init /\ [][Next]_vars

------------------------------------------------------------------------------
(* The reference.  It reads the document as it is, with no depth, budget,       *)
(* compilation or order of evaluation.                                         *)

RECURSIVE Leaves(_)
Leaves(d) ==
    CASE "op" \notin DOMAIN d -> {d}
      [] d.op = "not" -> Leaves(d.condition)
      [] OTHER -> UNION {Leaves(d.conditions[k]) : k \in DOMAIN d.conditions}

RECURSIVE NodeCount(_)
NodeCount(d) ==
    CASE "op" \notin DOMAIN d -> 1
      [] d.op = "not" -> 1 + NodeCount(d.condition)
      [] OTHER -> FoldLeft(LAMBDA sum, child : sum + NodeCount(child), 1, d.conditions)

\* The document is no deeper than the limit.
RECURSIVE FitsDepth(_, _)
FitsDepth(d, limit) ==
    /\ limit > 0
    /\ CASE "op" \notin DOMAIN d -> TRUE
         [] d.op = "not" -> FitsDepth(d.condition, limit - 1)
         [] OTHER -> \A k \in DOMAIN d.conditions : FitsDepth(d.conditions[k], limit - 1)

RECURSIVE NonEmpty(_)
NonEmpty(d) ==
    CASE "op" \notin DOMAIN d -> TRUE
      [] d.op = "not" -> NonEmpty(d.condition)
      [] OTHER -> d.conditions # <<>> /\ \A k \in DOMAIN d.conditions : NonEmpty(d.conditions[k])

Acceptable(d) ==
    /\ NonEmpty(d) /\ NodeCount(d) <= MaxRuleNodes /\ FitsDepth(d, MaxRuleDepth)
    /\ \A leaf \in Leaves(d) : leaf.field \in StringFields \cup {"size", "has_attachment"}

\* The texts a leaf is about, compared without regard to case.
Texts(leaf) ==
    LET name == IF leaf.field = "header" THEN Casefold(leaf.header) ELSE <<leaf.field>>
    IN  {Casefold(FlattenSeq(raw.headers[k].fragments)) :
            k \in {k \in DOMAIN raw.headers : Casefold(raw.headers[k].name) = name}}

Attached ==
    LET parts == PartsFrom(raw.root, 0)
    IN  \/ raw.root.disposition = "attachment"
        \/ \E k \in DOMAIN parts :
              /\ parts[k].part # raw.root
              /\ parts[k].part.disposition = "attachment" \/ parts[k].part.named \/ parts[k].part.embedded

\* What a leaf is if the texts it asks for are there.
LeafHolds(leaf, texts) ==
    LET value == Casefold(leaf.value)
        found == CASE leaf.operator \in {"equals", "not_equals"} -> value \in texts
                   [] leaf.operator \in {"contains", "not_contains"} -> \E x \in texts : Within(value, x)
                   [] leaf.operator = "starts_with" -> \E x \in texts : IsPrefix(value, x)
                   [] OTHER -> \E x \in texts : IsSuffix(value, x)
    IN  found # (leaf.operator \in {"not_equals", "not_contains"})

\* The truth values a document can have, however the headers it misses might read.
RECURSIVE Possible(_)
Possible(d) ==
    IF "op" \in DOMAIN d
    THEN IF d.op = "not" THEN {~x : x \in Possible(d.condition)}
         ELSE FoldLeft(LAMBDA sofar, child :
                          {IF d.op = "and" THEN x /\ y ELSE x \/ y : x \in sofar, y \in Possible(child)},
                       {d.op = "and"}, d.conditions)
    ELSE CASE d.field = "size" ->
                {CASE d.operator = "eq" -> raw.size = d.value
                   [] d.operator = "lt" -> raw.size < d.value
                   [] d.operator = "lte" -> ~(raw.size > d.value)
                   [] d.operator = "gt" -> raw.size > d.value
                   [] OTHER -> ~(raw.size < d.value)}
           [] d.field = "has_attachment" -> {Attached = d.value}
           [] d.operator = "exists" -> {Texts(d) # {}}
           [] OTHER -> IF Texts(d) = {} THEN BOOLEAN ELSE {LeafHolds(d, Texts(d))}

------------------------------------------------------------------------------
(* Properties.                                                                 *)

TypeOK ==
    /\ pc \in {"prepare", "match", "done"}
    /\ i \in 1..(Len(rules) + 1)
    /\ Len(prepared) <= Len(rules)
    /\ target \in {rules[k].target : k \in DOMAIN rules} \cup {None}
    /\ (pc = "match") => facts # None

\* The three-valued evaluation is exact: a compiled rule matches just when its
\* condition would be true however the headers the message lacks might read.  A
\* rule never files a message on the strength of a missing header, under any
\* nesting of and, or and not, and never misses one that needs none of them.
MatchIsCertain ==
    pc = "match" =>
        \A k \in DOMAIN prepared : \A j \in DOMAIN rules :
            rules[j].enabled /\ rules[j].position = prepared[k].position =>
                (Matches(prepared[k], facts) <=> Possible(rules[j].condition) = {TRUE})

\* A document is accepted just when its tree is within the node and depth
\* limits and every leaf is supported: the checks at each level of the parser
\* add up to the two limits, neither more nor less.
BudgetExact ==
    pc = "prepare" /\ i <= Len(rules) =>
        ((ConditionFromMapping(rules[i].condition, 1) # Bad) <=> Acceptable(rules[i].condition))

\* The stored form of an accepted condition reads back as the same condition, so
\* a rule means the same after it is saved, published and compiled again.
StoredFormExact ==
    pc = "prepare" /\ i <= Len(rules) =>
        LET c == ConditionFromMapping(rules[i].condition, 1)
        IN  c = Bad \/ ConditionFromMapping(ConditionToMapping(c), 1) = c

\* The message goes where the rules in the order of their positions send it: to
\* the target of the last certain match up to the first that stops; nowhere if
\* the list or the message is unusable.
FiledAsOrdered ==
    pc = "done" =>
        LET certain == {k \in DOMAIN rules : rules[k].enabled /\ Possible(rules[k].condition) = {TRUE}}
            reached == {k \in certain : \A j \in certain :
                          rules[j].stop => rules[k].position <= rules[j].position}
            last == {k \in reached : \A j \in reached : rules[j].position <= rules[k].position}
            enabled == {k \in DOMAIN rules : rules[k].enabled}
            usable == /\ \A k \in enabled : Acceptable(rules[k].condition)
                      /\ \A k \in DOMAIN rules : MetadataValid(k)
                      /\ \A j, k \in enabled : rules[j].position = rules[k].position => j = k
                      /\ ParseRuleMessage(raw) # Bad
        IN  target = IF usable /\ last # {} THEN rules[CHOOSE k \in last : TRUE].target ELSE None

\* A list of rules is accepted, stored, matched and followed as its documents
\* say.
EvaluatedAsWritten ==
    TypeOK /\ MatchIsCertain /\ BudgetExact /\ StoredFormExact /\ FiledAsOrdered
=============================================================================
