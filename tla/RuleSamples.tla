---------------------------- MODULE RuleSamples ----------------------------
(* Bounded documents, rule lists and messages on which TLC evaluates rules.    *)
EXTENDS Naturals, Sequences

CONSTANT Bad  \* text that does not decode

\* Header names as one-letter texts; fields of their own as one-element texts.
X == <<"A">>

Part(disposition, named, children) ==
    [disposition |-> disposition, named |-> named, embedded |-> FALSE,
     defective |-> FALSE, children |-> children]
Plain == Part("none", FALSE, <<>>)
Named == Part("none", TRUE, <<>>)
Header(name, fragments) == [name |-> name, fragments |-> fragments]
Mail(headers, size, root) == [headers |-> headers, size |-> size, root |-> root]

Subject(fragments) == Header(<<"subject">>, fragments)

\* Subjects that are absent, plain, split into encoded words, and repeated; a
\* custom header in the other case; attachments at the root and below it.
Messages ==
    { Mail(<<>>, 1, Plain),
      Mail(<<Subject(<<<<"a">>, <<"B">>>>)>>, 2, Named),
      Mail(<<Subject(<<<<"b">>>>), Subject(<<<<"A", "b">>>>)>>, 1, Part("none", FALSE, <<Plain, Named>>)),
      Mail(<<Header(<<"a">>, <<<<"b">>>>)>>, 2, Part("attachment", FALSE, <<>>)) }

\* Messages at and beyond the limits of the parser.
OddMessages ==
    { Mail(<<Subject(<<Bad>>)>>, 1, Plain),
      Mail(<<Subject(<<<<"a">>>>)>>, 1, [Plain EXCEPT !.defective = TRUE]),
      Mail(<<Subject(<<<<"a">>>>)>>, 1, Part("none", FALSE, <<Part("none", FALSE, <<Plain>>)>>)),
      Mail(<<Subject(<<<<"a">>>>)>>, 1, Part("none", FALSE, <<Part("none", FALSE, <<Named, Plain>>)>>)),
      Mail(<<Subject(<<<<"a">>>>)>>, 1, Part("none", FALSE, <<[Plain EXCEPT !.embedded = TRUE]>>)) }

Text(field, operator, value) == [field |-> field, operator |-> operator, value |-> value]
Custom(operator, value) == [field |-> "header", header |-> X, operator |-> operator, value |-> value]

\* One leaf of each truth value, and one whose header may be missing.
CoreLeaves ==
    { Text("subject", "contains", <<"a", "b">>), Custom("not_equals", <<"B">>),
      [field |-> "header", header |-> X, operator |-> "exists"],
      [field |-> "has_attachment", operator |-> "eq", value |-> TRUE] }

\* Every operator.
TextOperators == {"equals", "not_equals", "contains", "not_contains", "starts_with",
                  "ends_with"}
NumericOperators == {"eq", "lt", "lte", "gt", "gte"}
AllLeaves ==
    {Text("subject", op, v) : op \in TextOperators, v \in {<<"B">>, <<"a", "b">>}}
    \cup {Custom(op, <<"B">>) : op \in TextOperators}
    \cup {[field |-> "subject", operator |-> "exists"], [field |-> "from", operator |-> "exists"]}
    \cup {Text("size", op, 1) : op \in NumericOperators}
    \cup {[field |-> "has_attachment", operator |-> "eq", value |-> b] : b \in BOOLEAN}

Unsupported == [field |-> "body", operator |-> "exists"]

Deeper(S) ==
    S \cup {[op |-> "not", condition |-> d] : d \in S}
      \cup {[op |-> op, conditions |-> <<d, e>>] : op \in {"and", "or"}, d \in S, e \in S}

One(d) == <<[id |-> "r1", enabled |-> TRUE, position |-> 0, stop |-> TRUE, target |-> "X", condition |-> d]>>

\* Trees of up to three levels, one rule each.
TreeLists == {One(d) : d \in Deeper(Deeper(CoreLeaves))}

\* Trees around the limits.
Chain ==
    LET trees == Deeper(Deeper({Text("size", "eq", 1)})) \cup {Unsupported, [op |-> "or", conditions |-> <<>>]}
    IN  trees \cup {[op |-> "not", condition |-> d] : d \in trees}

RuleOf(id, ds) ==
    [id : {id}, enabled : BOOLEAN, position : {0, 1}, stop : BOOLEAN,
     target : {IF id = "r1" THEN "X" ELSE "Y"}, condition : ds]

\* Two rules in either order, and one more that matches everything.
OrderLists ==
    {<<r, s>> : r \in RuleOf("r1", CoreLeaves \cup {Unsupported}), s \in RuleOf("r2", CoreLeaves)}
    \cup {<<r, s, [id |-> "r3", enabled |-> TRUE, position |-> 2, stop |-> FALSE, target |-> "Z",
                    condition |-> Text("size", "gte", 1)]>> :
            r \in RuleOf("r1", {Custom("not_equals", <<"B">>)}),
            s \in RuleOf("r2", {Text("subject", "contains", <<"a", "b">>)})}
    \cup {<<r, r>> : r \in RuleOf("r1", {Text("size", "gte", 1)})}
    \cup {One(d) : d \in AllLeaves \cup Chain}

AllMessages == Messages \cup OddMessages
=============================================================================
