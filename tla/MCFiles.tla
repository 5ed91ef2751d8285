------------------------------- MODULE MCFiles -------------------------------
EXTENDS DocChunker, AstChunker, WatchLoop

const_Extension == {"rs", "py", "jsx", "java", "rb", "swift"}
const_Kinds ==
    [rust |-> {"impl_item", "mod_item", "function_item"},
     python |-> {"class_definition", "function_definition"},
     javascript |-> {"class_declaration", "method_definition", "function_declaration"},
     java |-> {"class_declaration", "constructor_declaration", "method_declaration"},
     ruby |-> {"class", "method", "singleton_method"},
     swift |-> {"class_declaration", "init_declaration", "function_declaration"}]
\* Four lines, two tokens on the first.
const_Source == <<"x", "x", "nl", "x", "nl", "x">>

F(d, n, e, s) == [dirs |-> d, name |-> n, ext |-> e, shape |-> s]
const_File == {F(<<"src">>, "a.rs", "rs", "plain"), F(<<"target">>, "b.js", "js", "plain")}
const_ChunksOf == [x |-> {1}, y |-> {1, 2}, big |-> {1, 3}, raw |-> {}]

Handle(above, cfg, path_filter) ==
    LET filters == filters_from_index_config(cfg)
    IN [above |-> above, languages |-> cfg.languages, include_paths |-> filters.include_paths,
        exclude_globs |-> filters.exclude_globs, extensions |-> filters.extensions,
        path_filter |-> path_filter]
NoFilter == [paths |-> {}, exclude |-> {}, languages |-> {}]
const_Handles ==
    {Handle(<<"home">>, NoFilter, {}), Handle(<<"target">>, NoFilter, {}),
     Handle(<<"home">>, [NoFilter EXCEPT !.languages = {"rust"}], {"src"}),
     Handle(<<"home">>, [NoFilter EXCEPT !.languages = {"ruby"}, !.exclude = {<<"name", "src">>}], {}),
     Handle(<<"home">>, [NoFilter EXCEPT !.paths = {<<"target">>}], {})}

\* Three parts side by side: a document, a source file, and files that are watched; a
\* part moves only while the others have not begun.
MCInit == DocInit /\ AstInit /\ WatchInit
DocAtStart == ext = "csv" /\ ~done /\ lines = <<>>
AstAtStart == ~chunked /\ tree = <<>> /\ extension = "rs"
WatchAtStart ==
    /\ handle = Handle(<<"home">>, NoFilter, {}) /\ disk = [g \in File |-> Absent]
    /\ edits = 0 /\ runs = 0 /\ restarts = 0
MCNext ==
    \/ AstAtStart /\ WatchAtStart /\ DocNext /\ UNCHANGED <<avars, wvars>>
    \/ DocAtStart /\ WatchAtStart /\ AstNext /\ UNCHANGED <<dvars, wvars>>
    \/ DocAtStart /\ AstAtStart /\ WatchNext /\ UNCHANGED <<dvars, avars>>
MCSpec == MCInit /\ [][MCNext]_<<dvars, avars, wvars>> /\ WatchFairness
=============================================================================
