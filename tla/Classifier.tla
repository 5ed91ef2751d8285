------------------------------ MODULE Classifier ------------------------------
(***************************************************************************)
(* The intent of a query. A query is the set of the words and shapes it    *)
(* has that some regular expression of the classifier looks for.           *)
(***************************************************************************)
EXTENDS Integers, Sequences, SequencesExt

Intent == {"Definition", "Usage", "Conceptual", "BugDebt", "Unknown"}

\* Each pattern, by the words it matches. "enum" and "model" have a pattern of their
\* own before the one for keywords; a long text is six words without code punctuation.
Pattern ==
    [entity_usage |-> {"tested by", "co-occurs"},
     entity_def |-> {"implements", "derives from", "aliased as"},
     entity_bug |-> {"raises", "documented by"},
     domain_def |-> {"definition", "interface", "schema", "model", "enum"},
     extended_bug |-> {"error handling", "deprecated", "legacy", "hardcoded"},
     usage |-> {"where is", "callers of", "who calls", "uses of", "called by"},
     def |-> {"fn", "struct", "impl", "trait", "enum", "type", "class", "function"},
     conceptual |-> {"how does", "what is", "explain", "design", "why"},
     bug |-> {"TODO", "FIXME", "panic!", "bug", "error handling", "error", "crash"},
     long_nl |-> {"six plain words"},
     pascal_ident |-> {"PascalCase"}]

\* The chain: the first pattern that matches decides.
Chain ==
    <<<<"entity_usage", "Usage">>, <<"entity_def", "Definition">>,
      <<"entity_bug", "BugDebt">>, <<"domain_def", "Definition">>,
      <<"extended_bug", "BugDebt">>, <<"usage", "Usage">>, <<"def", "Definition">>,
      <<"conceptual", "Conceptual">>, <<"bug", "BugDebt">>, <<"long_nl", "Conceptual">>,
      <<"pascal_ident", "Definition">>>>

classify(words) ==
    LET match == SelectInSeq(Chain, LAMBDA p : Pattern[p[1]] \cap words # {})
    IN IF match = 0 THEN "Unknown" ELSE Chain[match][2]

\* A term of the repository's vocabulary makes an unknown query a definition query.
classify_with_domain(words, domain_terms) ==
    IF classify(words) = "Unknown" /\ words \cap domain_terms # {} THEN "Definition"
    ELSE classify(words)

\* Weights of the vector and the BM25 lane in tenths, and whether the graph is used.
weights(intent) ==
    CASE intent = "Definition" -> [alpha |-> 3, beta |-> 7, kg |-> FALSE]
      [] intent = "Usage"      -> [alpha |-> 5, beta |-> 5, kg |-> TRUE]
      [] intent = "Conceptual" -> [alpha |-> 8, beta |-> 2, kg |-> FALSE]
      [] intent = "BugDebt"    -> [alpha |-> 1, beta |-> 9, kg |-> FALSE]
      [] intent = "Unknown"    -> [alpha |-> 6, beta |-> 4, kg |-> FALSE]
=============================================================================
