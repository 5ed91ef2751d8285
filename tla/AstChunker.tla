----------------------------- MODULE AstChunker -----------------------------
(***************************************************************************)
(* How a source file is cut into chunks: one for each declaration of the   *)
(* syntax tree, without what lies inside functions, long ones cut further. *)
(*                                                                         *)
(* The tree is built by the grammar of the language (external): a sequence *)
(* of declarations and calls in the order of the text, each with its       *)
(* parent. The bodies of declarations are left out, a declaration's parent *)
(* is the one it is in. Bytes are those of Source, where "nl" ends a line. *)
(***************************************************************************)
EXTENDS Naturals, Sequences, FiniteSetsExt, Functions, SequencesExt

CONSTANTS Extension,        \* extensions looked at
          Kinds,            \* of each language, the kinds of declarations looked at
          Symbol,           \* names of declarations
          Source,           \* the bytes of the file
          MaxNodes,         \* bound on the tree
          MAX_CHUNK_LINES, SUB_CHUNK_WINDOW, SUB_CHUNK_STRIDE

ASSUME AstAssumption ==
    /\ Source \in Seq({"x", "nl"}) /\ Source # <<>> /\ MaxNodes \in Nat
    /\ SUB_CHUNK_WINDOW \in Nat \ {0} /\ SUB_CHUNK_STRIDE \in 1..SUB_CHUNK_WINDOW
    /\ MAX_CHUNK_LINES \in Nat \ {0}

VARIABLES extension, tree, chunks, chunked
avars == <<extension, tree, chunks, chunked>>

NoSymbol == "no symbol"

\* Extensions by language.
Languages ==
    [rust |-> {"rs"}, python |-> {"py"}, javascript |-> {"js", "mjs", "cjs", "jsx"},
     typescript |-> {"ts", "tsx"}, go |-> {"go"}, java |-> {"java"}, c |-> {"c", "h"},
     cpp |-> {"cpp", "cc", "cxx", "hpp", "hh", "hxx"}, ruby |-> {"rb"}, php |-> {"php"},
     scala |-> {"scala"}, csharp |-> {"cs"}, kotlin |-> {"kt", "kts"}, swift |-> {"swift"}]
ASSUME ExtensionAssumption == \A e \in Extension : \E l \in DOMAIN Languages : e \in Languages[l]

language_for(e) == CHOOSE l \in DOMAIN Languages : e \in Languages[l]

lang == language_for(extension)

\* Nodes that become chunks, by the type of the chunk. Swift's struct, enum and extension
\* declarations are class_declaration nodes told apart by their keyword: a kind for each
\* stands for swift_class_decl_kind.
Declared ==
    LET js == [function_declaration |-> "Function", class_declaration |-> "Class",
               method_definition |-> "Method"]
    IN [rust |-> [impl_item |-> "Impl", struct_item |-> "Class", trait_item |-> "Trait",
                  enum_item |-> "Enum", mod_item |-> "Module"],
        python |-> [class_definition |-> "Class"],
        javascript |-> js, typescript |-> js,
        go |-> [function_declaration |-> "Function", method_declaration |-> "Method",
                type_declaration |-> "Class"],
        java |-> [method_declaration |-> "Method", class_declaration |-> "Class",
                  interface_declaration |-> "Trait"],
        c |-> [function_definition |-> "Function", struct_specifier |-> "Class"],
        cpp |-> [function_definition |-> "Function", struct_specifier |-> "Class",
                 class_specifier |-> "Class"],
        ruby |-> [method |-> "Function", singleton_method |-> "Method", module |-> "Module",
                  class |-> "Class"],
        php |-> [function_definition |-> "Function", method_declaration |-> "Method",
                 class_declaration |-> "Class", interface_declaration |-> "Trait",
                 trait_declaration |-> "Trait", namespace_definition |-> "Module"],
        scala |-> [class_definition |-> "Class", object_definition |-> "Class",
                   trait_definition |-> "Trait"],
        csharp |-> [constructor_declaration |-> "Method", class_declaration |-> "Class",
                    interface_declaration |-> "Trait", struct_declaration |-> "Class",
                    namespace_declaration |-> "Module", enum_declaration |-> "Enum"],
        kotlin |-> [secondary_constructor |-> "Method", class_declaration |-> "Class",
                    object_declaration |-> "Class", companion_object |-> "Class",
                    interface_declaration |-> "Trait"],
        swift |-> [class_declaration |-> "Class", struct_declaration |-> "Struct",
                   enum_declaration |-> "Enum", extension_declaration |-> "Module",
                   protocol_declaration |-> "Trait", init_declaration |-> "Method"]]

\* Nodes that are a method below one of the kinds named and a function elsewhere.
SwiftTypes == {"class_declaration", "struct_declaration", "enum_declaration",
               "extension_declaration", "protocol_declaration"}
MethodBelow ==
    [l \in DOMAIN Languages |->
        CASE l = "rust"   -> [function_item |-> {"impl_item"}]
          [] l = "python" -> [function_definition |-> {"class_definition"}]
          [] l = "scala"  -> [function_definition |-> {"class_definition", "object_definition",
                                                       "trait_definition"}]
          [] l = "csharp" -> [method_declaration |-> {"class_declaration",
                                   "interface_declaration", "struct_declaration"}]
          [] l = "kotlin" -> [function_declaration |-> {"class_declaration", "object_declaration"}]
          [] l = "swift"  -> [function_declaration |-> SwiftTypes,
                              protocol_function_declaration |-> SwiftTypes]
          [] OTHER -> <<>>]

\* Functions whose calls are not their parent's.
FnKinds ==
    [rust |-> {"function_item"}, python |-> {"function_definition"},
     javascript |-> {"function_declaration"}, typescript |-> {"function_declaration"},
     go |-> {"function_declaration"}, java |-> {"method_declaration"},
     c |-> {"function_definition"}, cpp |-> {"function_definition"},
     ruby |-> {"method", "singleton_method"},
     php |-> {"function_definition", "method_declaration"}, scala |-> {"function_definition"},
     csharp |-> {"method_declaration", "constructor_declaration"},
     kotlin |-> {"function_declaration", "secondary_constructor"},
     swift |-> {"function_declaration", "init_declaration", "protocol_function_declaration"}]

is_function_body_node(kind) ==
    kind \in {"function_item", "function_declaration", "function_definition",
              "method_declaration", "method_definition", "constructor_declaration",
              "secondary_constructor", "init_declaration", "protocol_function_declaration"}

-----------------------------------------------------------------------------
(* The tree.                                                               *)

\* The members of a finite set of numbers, from the least on.
Ascending(S) ==
    [k \in 1..Cardinality(S) |-> CHOOSE n \in S : Cardinality({m \in S : m <= n}) = k]

\* A node with all it is below, and those alone.
Lineage[n \in 0..Len(tree)] == IF n = 0 THEN {} ELSE {n} \cup Lineage[tree[n].parent]
Above == [n \in DOMAIN tree |-> Lineage[tree[n].parent]]

ancestor_kind(n, kinds) == {a \in Above[n] : tree[a].kind \in kinds}
Nearest(nodes) == Max(nodes)

classify_node(n) ==
    LET kind == tree[n].kind
        parent_kind == IF tree[n].parent = 0 THEN "none" ELSE tree[tree[n].parent].kind
    IN IF kind \in DOMAIN MethodBelow[lang]
       THEN IF \/ ancestor_kind(n, MethodBelow[lang][kind]) # {}
               \* The declaration_list of an impl, a trait or a module.
               \/ lang = "rust" /\ parent_kind \in {"impl_item", "trait_item", "mod_item"}
            THEN "Method" ELSE "Function"
       ELSE IF kind \in DOMAIN Declared[lang] THEN Declared[lang][kind] ELSE "none"

\* An impl has a type and no name.
name_of(n) == IF tree[n].kind = "impl_item" THEN NoSymbol ELSE tree[n].symbol

OwnerKinds == [rust |-> {"impl_item"},
               scala |-> {"class_definition", "object_definition", "trait_definition"},
               php |-> {"class_declaration", "interface_declaration", "trait_declaration"}]

qualify_method_name(n) ==
    LET name == name_of(n)
        owners == IF lang \in DOMAIN OwnerKinds THEN ancestor_kind(n, OwnerKinds[lang]) ELSE {}
    IN IF classify_node(n) # "Method" \/ name = NoSymbol \/ owners = {} THEN <<name>>
       ELSE <<tree[Nearest(owners)].symbol, name>>

Inheriting == [rust |-> {"impl_item"}, python |-> {"class_definition"},
               scala |-> OwnerKinds.scala, php |-> OwnerKinds.php]
collect_inherits(n) ==
    IF lang \in DOMAIN Inheriting /\ tree[n].kind \in Inheriting[lang] THEN tree[n].bases ELSE {}

\* Mutant: all calls in the text of n.
CallsBelow(n) == {c \in DOMAIN tree : tree[c].kind = "call" /\ n \in Above[c]}
\* The calls in the text of n that are in no function below it.
CallsIn(n) ==
    {c \in DOMAIN tree :
        /\ tree[c].kind = "call" /\ n \in Above[c]
        /\ \A a \in Above[c] : n \in Above[a] => tree[a].kind \notin FnKinds[lang]}
collect_calls(n) == {tree[c].symbol : c \in CallsIn(n)}

LineCount == 1 + Cardinality({i \in DOMAIN Source : Source[i] = "nl"})
\* Offsets of the starts of lines, and the line of a byte by binary search among them.
line_offsets == Ascending({1} \cup {i + 1 : i \in {j \in DOMAIN Source : Source[j] = "nl"}})
line_for_byte(byte) ==
    LET before == Cardinality({i \in DOMAIN line_offsets : line_offsets[i] < byte})
    IN IF byte \in Range(line_offsets) THEN before + 1 ELSE Max({before, 1})

-----------------------------------------------------------------------------
(* The chunks.                                                             *)

make_chunk_id(type, name, start, end) ==
    IF name = <<NoSymbol>> THEN <<"lines", start, end>> ELSE <<type, name, start>>

\* The walk does not go into a function that is a chunk.
Walked == {n \in DOMAIN tree :
              /\ classify_node(n) # "none"
              /\ \A a \in Above[n] : ~(classify_node(a) # "none" /\ is_function_body_node(tree[a].kind))}

NodeChunk(n) ==
    LET start == line_for_byte(tree[n].first)
        end == line_for_byte(tree[n].last)
        name == qualify_method_name(n)
    IN [id |-> make_chunk_id(classify_node(n), name, start, end),
        node |-> n, type |-> classify_node(n), name |-> name, start |-> start, end |-> end,
        calls |-> collect_calls(n), inherits |-> collect_inherits(n),
        depth |-> Cardinality(Above[n] \cap Walked), parent |-> <<>>, children |-> <<>>]

walk_for_chunks ==
    LET nodes == Ascending(Walked)
    IN [i \in DOMAIN nodes |-> NodeChunk(nodes[i])]

\* The whole file, when it declares nothing.
generic ==
    [id |-> <<"lines", 1, LineCount>>, node |-> 0, type |-> "Code", name |-> <<NoSymbol>>, start |-> 1,
     end |-> LineCount, calls |-> {}, inherits |-> {}, depth |-> 0, parent |-> <<>>,
     children |-> <<>>]

Lines(c) == c.end - c.start + 1

\* The number of windows: the first that reaches the last line is the last.
Windows(n) ==
    CHOOSE i \in 1..n : /\ (i - 1) * SUB_CHUNK_STRIDE + SUB_CHUNK_WINDOW >= n
                        /\ \A j \in 1..(i - 1) : (j - 1) * SUB_CHUNK_STRIDE + SUB_CHUNK_WINDOW < n

SubChunk(c, i) ==
    LET from == (i - 1) * SUB_CHUNK_STRIDE
    IN [c EXCEPT !.id = <<"sub", c.id, i>>, !.start = c.start + from,
                 !.end = c.start + Min({from + SUB_CHUNK_WINDOW, Lines(c)}) - 1,
                 !.calls = {}, !.inherits = {}, !.parent = c.id]

\* Pieces come before the chunk they are cut from, which stays.
SplitChunk(c) ==
    IF Lines(c) <= MAX_CHUNK_LINES THEN <<c>>
    ELSE LET pieces == [i \in 1..Windows(Lines(c)) |-> SubChunk(c, i)]
         IN Append(pieces, [c EXCEPT !.children = [i \in DOMAIN pieces |-> pieces[i].id]])
split_oversized(found) == FlattenSeq([i \in DOMAIN found |-> SplitChunk(found[i])])

-----------------------------------------------------------------------------

AstInit == extension \in Extension /\ tree = <<>> /\ chunks = <<>> /\ chunked = FALSE

\* The parser's next node: below the last one or an ancestor of it, after its siblings.
\* A call or a declaration starts and ends with a byte that is no line end.
Parse(kind, parent, symbol, bases, first, last) ==
    /\ ~chunked /\ Len(tree) < MaxNodes
    /\ Source[first] # "nl" /\ Source[last] # "nl"
    /\ parent # 0 => /\ parent = Len(tree) \/ parent \in Above[Len(tree)]
                     /\ tree[parent].kind # "call"
                     /\ tree[parent].first <= first /\ last <= tree[parent].last
    /\ \A n \in DOMAIN tree : tree[n].parent = parent => tree[n].last < first
    /\ tree' = Append(tree, [kind |-> kind, parent |-> parent, symbol |-> symbol,
                             bases |-> bases, first |-> first, last |-> last])
    /\ UNCHANGED <<extension, chunks, chunked>>

chunk_ast ==
    /\ ~chunked /\ chunked' = TRUE
    /\ chunks' = split_oversized(IF walk_for_chunks = <<>> THEN <<generic>> ELSE walk_for_chunks)
    /\ UNCHANGED <<extension, tree>>

BasesOf(kind) ==
    IF lang \in DOMAIN Inheriting /\ kind \in Inheriting[lang] THEN {{}, Symbol} ELSE {{}}

AstNext ==
    \/ chunk_ast
    \/ \E kind \in Kinds[lang] \cup {"call"}, parent \in 0..Len(tree), symbol \in Symbol,
          first \in DOMAIN Source :
          \E bases \in BasesOf(kind), last \in first..Len(Source) :
              Parse(kind, parent, symbol, bases, first, last)

AstSpec == AstInit /\ [][AstNext]_avars

-----------------------------------------------------------------------------
(* Properties.                                                             *)

AstTypeOK ==
    /\ extension \in Extension /\ Len(tree) <= MaxNodes
    /\ \A c \in Range(chunks) :
          /\ c.node \in 0..Len(tree) /\ c.start \in 1..c.end /\ c.end <= LineCount
          /\ c.calls \cup c.inherits \subseteq Symbol

Whole == {c \in Range(chunks) : c.parent = <<>>}

\* A chunk's lines are those its declaration is on, counted from the line ends before it:
\* what a search shows is where the code is (build_line_offsets, line_for_byte).
LinesExact ==
    \A c \in Whole : c.node # 0 =>
        LET LineOf(byte) == 1 + Cardinality({i \in 1..(byte - 1) : Source[i] = "nl"})
        IN c.start = LineOf(tree[c.node].first) /\ c.end = LineOf(tree[c.node].last)

Functions == {c \in Whole : c.type \in {"Function", "Method"}}

\* No call counts for two functions: the tables that say where the walk stops and where
\* the calls of a function end agree in every language (collect_calls, walk_for_chunks).
CallsClaimedOnce ==
    \A c, d \in Functions : c # d => CallsIn(c.node) \cap CallsIn(d.node) = {}

\* What is inside a function is in no other chunk, Ruby's methods excepted.
FunctionsWhole ==
    lang # "ruby" =>
        \A c \in Functions, d \in Whole : d.node # 0 => c.node \notin Above[d.node]

\* Every declaration outside functions has its chunk, and a file without one is a chunk.
AllDeclared ==
    chunked =>
        /\ {n \in DOMAIN tree : /\ classify_node(n) # "none"
                                /\ \A a \in Above[n] : classify_node(a) \notin {"Function", "Method"}}
              \subseteq {c.node : c \in Whole}
        /\ chunks # <<>>

\* The pieces of a long chunk and the chunk name each other, in order; the pieces leave
\* no line of it out and none is longer than a piece may be (split_oversized).
PiecesCover ==
    \A c \in Whole :
        LET at == Ascending({i \in DOMAIN chunks : chunks[i].parent = c.id /\ chunks[i].node = c.node})
            pieces == [k \in DOMAIN at |-> chunks[at[k]]]
        IN /\ Lines(c) > MAX_CHUNK_LINES <=> pieces # <<>>
           /\ c.children = [i \in DOMAIN pieces |-> pieces[i].id]
           /\ pieces # <<>> =>
                 /\ UNION {p.start..p.end : p \in Range(pieces)} = c.start..c.end
                 /\ \A p \in Range(pieces) : Lines(p) <= SUB_CHUNK_WINDOW

\* With a declaration a line, no two chunks of a file have one id, whatever the names.
AstIdsUnique ==
    (\A m, n \in Walked : m # n => line_for_byte(tree[m].first) # line_for_byte(tree[n].first))
    => \A i, j \in DOMAIN chunks : i # j => chunks[i].id # chunks[j].id

\* The tables of node kinds agree in every language: each function outside others is one
\* chunk, and a call is claimed by one function.
DeclarationsWhole == CallsClaimedOnce /\ FunctionsWhole /\ AllDeclared

\* The lines a chunk names are those its code is on, a long chunk is covered by its
\* pieces, no two chunks have one id, and every declaration is in one chunk.
AstChunksExact == AstTypeOK /\ LinesExact /\ PiecesCover /\ AstIdsUnique /\ DeclarationsWhole

-----------------------------------------------------------------------------
(* What comments say and the code does not do; see the README.             *)

\* make_chunk_id: "Stable, content-aware chunk ID". Two of one name on a line have one.
IdsUnique == \A i, j \in DOMAIN chunks : i # j => chunks[i].id # chunks[j].id

\* is_function_body_node: "nested functions are emitted as their own top-level chunks".
NestedEmitted ==
    chunked => {n \in DOMAIN tree : classify_node(n) # "none"} \subseteq {c.node : c \in Whole}

\* collect_calls: "without descending into nested function/method bodies". A JavaScript
\* class claims the calls of its methods.
OwnCallsOnly ==
    \A c, d \in Whole : c # d => CallsIn(c.node) \cap CallsIn(d.node) = {}
=============================================================================
