------------------------------- MODULE MCSearch -------------------------------
EXTENDS Bm25Index, Search, GlobalSearch, McpServer

T == <<"T">>
f == <<"f">>
Chunk(name, file, calls, inherits, container) ==
    [name |-> name, file |-> file, calls |-> calls, inherits |-> inherits,
     container |-> container]

\* Free functions and methods that call each other by their last names, a function
\* twice, a recursive one, types in two files, a text chunk.
const_Chunks ==
    {Chunk(<<>>, "doc", <<>>, <<>>, FALSE), Chunk(T, "a", <<>>, <<>>, TRUE),
     Chunk(T, "b", <<>>, <<<<"U">>>>, TRUE), Chunk(<<"U">>, "a", <<>>, <<T>>, TRUE),
     Chunk(f, "a", <<<<"g">>>>, <<>>, FALSE), Chunk(f, "b", <<f, <<"h">>>>, <<>>, FALSE),
     Chunk(<<"T", "g">>, "a", <<<<"h">>, f>>, <<>>, FALSE),
     Chunk(<<"U", "g">>, "b", <<<<"T", "g">>>>, <<>>, FALSE),
     Chunk(<<"h">>, "b", <<<<"g">>, f>>, <<>>, FALSE)}
Sought == {<<Chunk(f, "a", <<<<"h">>>>, <<>>, FALSE), Chunk(<<"h">>, "b", <<>>, <<>>, FALSE),
             Chunk(T, "doc", <<>>, <<>>, TRUE)>>,
           <<Chunk(<<"T", "g">>, "a", <<<<"h">>>>, <<>>, FALSE),
             Chunk(f, "a", <<<<"g">>>>, <<>>, FALSE),
             Chunk(<<"h">>, "b", <<f>>, <<>>, FALSE)>>}
const_Corpora == [1..4 -> const_Chunks] \cup Sought
const_Caps == {0, 2}

Plain == [text |-> {}, domain_terms |-> {}, word |-> <<>>, top_k |-> 2, expand_graph |-> TRUE,
          boost |-> 15, branch_files |-> {}, git_files |-> {}, cached |-> {}, embedder |-> TRUE]
Requests ==
    {Plain, [Plain EXCEPT !.embedder = FALSE, !.word = T],
     [Plain EXCEPT !.text = {"fn"}, !.word = T, !.branch_files = {"b"}, !.boost = 35],
     [Plain EXCEPT !.text = {"error", "struct"}, !.cached = 1..3],
     [Plain EXCEPT !.text = {"callers of"}, !.git_files = {"b"}, !.boost = 5],
     [Plain EXCEPT !.text = {"callers of"}, !.git_files = {"b"}, !.branch_files = {"a"},
                   !.boost = 20, !.top_k = 1],
     [Plain EXCEPT !.text = {"who calls"}, !.cached = 1..2, !.top_k = 3],
     [Plain EXCEPT !.text = {"called by"}, !.expand_graph = FALSE],
     [Plain EXCEPT !.text = {"raises", "struct"}, !.cached = 1..3, !.git_files = {"a", "doc"}]}
const_Queries == [c \in const_Corpora |-> IF c \in Sought THEN Requests ELSE {}]
const_Multiplier == [CallsFunction |-> 7, Implements |-> 8, ModuleContains |-> 5]

const_Contexts == {[i \in 1..3 |-> NoContext], [i \in 1..3 |-> 3 * i - 4], [i \in 1..3 |-> 9 - i]}
All == [top_k |-> 3, named |-> FALSE, indexes |-> {}, routing |-> "all", n |-> 3, threshold |-> 3,
        embedder |-> TRUE]
const_GlobalQueries ==
    {All, [All EXCEPT !.top_k = 10, !.named = TRUE, !.indexes = {1, 3}],
     [All EXCEPT !.named = TRUE], [All EXCEPT !.routing = "top_n", !.n = 2],
     [All EXCEPT !.routing = "top_n", !.n = 0, !.top_k = 1],
     [All EXCEPT !.routing = "threshold"], [All EXCEPT !.routing = "threshold", !.threshold = 11],
     [All EXCEPT !.routing = "threshold", !.threshold = 8, !.embedder = FALSE]}
const_RankedHits == {<<>>, <<1>>, <<2, 1>>}

\* Two chunks with other first lines, and two with the same lines.
At(in, from, to, fun) == [file |-> in, from |-> from, to |-> to, function |-> fun]
const_Files == 1 :> {{At(1, 1, 3, "f"), At(1, 3, 5, "g")}}
               @@ 2 :> {{At(2, 1, 1, "f"), At(2, 1, 1, "g")}}
\* A name that loses its end in a path, and one that leaves the route.
const_Segment(n) == IF n = "i/" THEN Nobody ELSE IF n = "i?" THEN "i" ELSE n

\* Three clients, one at a time, of one index; or an agent, of indexes of any name.
AgentAtStart == sent = 0 /\ daemon = "up" /\ logs = {}
ClientsAtStart == {pager, similar, chat} = {Idle} /\ daemon_key = Nobody /\ ~local
OneIndex == \A n \in IndexName \ {"i"} : live'[n] = 0
ForOne(client) == "index" \in DOMAIN client' => client'.index = "i"
ClientsNext ==
    \/ /\ AgentAtStart /\ UNCHANGED mcpvars
       /\ \/ Elsewhere /\ OneIndex
          \/ {similar, chat} = {Idle} /\ (PagerStart \/ PagerRead \/ PagerNotFound)
          \/ {pager, chat} = {Idle} /\ SimilarNext /\ ForOne(similar)
          \/ {pager, similar} = {Idle} /\ ChatNext /\ ForOne(chat)
    \/ /\ ClientsAtStart
       /\ \/ McpNext /\ updates <= 1
          \/ call.at # "idle" /\ updates = 0 /\ Elsewhere /\ UNCHANGED mcpvars

\* Four parts side by side: the lexical index, a search of one index, a search of all,
\* the other clients; a part moves only while the others have not begun.
MCInit == Init /\ SearchInit /\ GlobalInit /\ McpInit
Bm25AtStart == bm25 = New
SearchAtStart == stage = "build"
GlobalAtStart == phase = "listen" /\ registered = {} /\ context = [i \in 1..3 |-> NoContext]
HttpAtStart == ClientsAtStart /\ AgentAtStart /\ updates = 0
MCNext ==
    \/ /\ HttpAtStart /\ UNCHANGED <<apivars, mcpvars>>
       /\ \/ Bm25AtStart /\ GlobalAtStart /\ SearchNext /\ UNCHANGED <<bm25, gvars>>
          \/ Bm25AtStart /\ SearchAtStart /\ GlobalNext /\ UNCHANGED <<bm25, vars>>
          \/ SearchAtStart /\ GlobalAtStart /\ Next /\ UNCHANGED <<vars, gvars>>
    \/ /\ Bm25AtStart /\ SearchAtStart /\ GlobalAtStart /\ UNCHANGED <<bm25, vars, gvars>>
       /\ ClientsNext
MCSpec == MCInit /\ [][MCNext]_<<bm25, vars, gvars, apivars, mcpvars>>
===============================================================================
