----------------------------- MODULE DocChunker -----------------------------
(***************************************************************************)
(* How a file that is no source code is cut into chunks: Markdown by       *)
(* headings, YAML by keys, TOML by sections, text and logs by paragraphs,  *)
(* XML by children of the root, JSON whole, anything else by overlapping   *)
(* windows.                                                                *)
(*                                                                         *)
(* A line is what the scanners look at: its kind, the name it would give a *)
(* chunk, or for XML its tags in order. The scanner's variables are those  *)
(* of the loop over the lines; Eof is what follows the loop.               *)
(***************************************************************************)
EXTENDS Integers, Sequences, FiniteSetsExt, Functions, SequencesExt

CONSTANTS Name,             \* names of headings, keys, sections and tags
          MaxLines,         \* bound on the lines of a file
          JSON_MAX_LINES, PLAINTEXT_MAX_LINES,
          Window, Stride    \* the arguments chunk_ast gives chunk_text

ASSUME DocAssumption ==
    /\ MaxLines \in Nat
    /\ JSON_MAX_LINES \in Nat \ {0} /\ PLAINTEXT_MAX_LINES \in Nat \ {0}
    /\ Window \in Nat \ {0} /\ Stride \in 1..Window

VARIABLES
    ext,        \* the file's extension
    lines,      \* the lines read so far
    start,      \* first line of the current section, paragraph or child; 0 if none
    name,       \* section_heading, section_name, child_name
    fence,      \* in_code_fence
    depth,      \* depth of chunk_xml
    out,        \* the chunks emitted
    done

scanner == <<start, name, fence, depth, out>>
dvars == <<ext, lines, scanner, done>>

NoName == "no name"
Ext == {"md", "mdx", "yaml", "yml", "toml", "json", "txt", "log", "xml", "csv"}
Markdown == {"md", "mdx"}
Yaml == {"yaml", "yml"}
Keyed == Yaml \cup {"toml"}
Plain == {"txt", "log"}

chunk_type == [e \in Ext |-> IF e \in Markdown THEN "Docstring"
                             ELSE IF e \in Keyed \cup {"json"} THEN "Constant"
                             ELSE IF e = "xml" THEN "Class" ELSE "Code"]

document_chunk(from, to, title) == [start |-> from, end |-> to, name |-> title]

\* A named chunk is known by its name and first line, another by its lines.
ChunkId(c) == IF c.name # NoName THEN <<chunk_type[ext], c.name, c.start>>
              ELSE <<c.start, c.end>>

Line(kind, title) == [kind |-> kind, name |-> title]
Tags(tags) == [kind |-> "tags", tags |-> tags]

\* A tag of an XML line. "commented" opens an element inside a comment; a "partial"
\* tag is closed by a `>' on a later line.
Tag == [kind : {"open", "close", "self", "declaration", "commented", "partial"}, name : Name]

\* A heading without a name is a line of `#' alone.
MarkdownLine == {Line(k, NoName) : k \in {"backticks", "tildes", "text", "blank"}} \cup
                {Line("heading", n) : n \in Name \cup {NoName}}
YamlLine == {Line(k, NoName) : k \in {"indented", "item", "comment", "blank"}} \cup
            {Line("key", n) : n \in Name}
TomlLine == {Line(k, NoName) : k \in {"text", "comment", "blank"}} \cup
            {Line("section", n) : n \in Name}
TagPair == {p \in Tag \X Tag : /\ p[1].name = p[2].name
                               /\ {p[1].kind, p[2].kind} \subseteq {"open", "close"}}
XmlLine == {Tags(<<>>), Line("blank", NoName)} \cup {Tags(<<t>>) : t \in Tag} \cup
           {Tags(p) : p \in TagPair}
PlainLine == {Line(k, NoName) : k \in {"text", "blank"}}
LinesOf(e) == CASE e \in Markdown -> MarkdownLine
                [] e \in Yaml -> YamlLine
                [] e = "toml" -> TomlLine
                [] e = "xml" -> XmlLine
                [] OTHER -> PlainLine

Blank(line) == line.kind = "blank"

-----------------------------------------------------------------------------

DocInit ==
    /\ ext \in Ext /\ lines = <<>>
    /\ start = IF ext \in Plain \cup {"xml"} THEN 0 ELSE 1
    /\ name = NoName /\ fence = FALSE /\ depth = 0
    /\ out = <<>> /\ done = FALSE

Here == Len(lines) + 1

\* The closure flush of the section chunkers: sections of blank lines are dropped.
Flushed ==
    IF \E i \in start..Len(lines) : ~Blank(lines[i])
    THEN <<document_chunk(start, Len(lines), name)>> ELSE <<>>

NewSection(title) ==
    /\ out' = out \o Flushed
    /\ start' = Here /\ name' = title

\* Mutant: a code block is read like the rest.
ReadMarkdownFlat(line) ==
    /\ ext \in Markdown
    /\ IF line.kind = "heading" THEN NewSection(line.name) ELSE UNCHANGED <<start, name, out>>
    /\ UNCHANGED <<fence, depth>>

ReadMarkdown(line) ==
    /\ ext \in Markdown
    /\ fence' = IF line.kind \in {"backticks", "tildes"} THEN ~fence ELSE fence
    /\ IF line.kind = "heading" /\ ~fence THEN NewSection(line.name)
       ELSE UNCHANGED <<start, name, out>>
    /\ UNCHANGED depth

\* The argument header_of of chunk_by_top_level_key.
header_of(line) == IF line.kind = (IF ext \in Yaml THEN "key" ELSE "section")
                   THEN line.name ELSE NoName

ReadKeyed(line) ==
    /\ ext \in Keyed
    /\ IF header_of(line) # NoName THEN NewSection(header_of(line))
       ELSE UNCHANGED <<start, name, out>>
    /\ UNCHANGED <<fence, depth>>

\* The closure push_buf: windows that do not overlap.
Paragraph(from, to) ==
    [i \in 1..((to - from) \div PLAINTEXT_MAX_LINES + 1) |->
        document_chunk(from + (i - 1) * PLAINTEXT_MAX_LINES,
                       Min({from + i * PLAINTEXT_MAX_LINES - 1, to}), NoName)]

ReadPlain(line) ==
    /\ ext \in Plain
    /\ IF Blank(line)
       THEN /\ out' = out \o (IF start = 0 THEN <<>> ELSE Paragraph(start, Len(lines)))
            /\ start' = 0
       ELSE /\ start' = IF start = 0 THEN Here ELSE start
            /\ UNCHANGED out
    /\ UNCHANGED <<name, fence, depth>>

TagsOf(line) == IF Blank(line) THEN <<>> ELSE line.tags
count(line, kinds) == Cardinality({t \in DOMAIN TagsOf(line) : TagsOf(line)[t].kind \in kinds})
count_xml_opens(line) == count(line, {"open", "commented"})
count_xml_closes(line) == count(line, {"close"})
first_xml_tag_name(line) ==
    IF TagsOf(line) # <<>> /\ Head(line.tags).kind \in {"open", "self", "partial"}
    THEN Head(line.tags).name ELSE NoName

\* A child starts on a line that opens more than it closes, directly below the root;
\* it ends where the depth is back at one, or less.
ReadXml(line) ==
    LET opens == count_xml_opens(line)
        closes == count_xml_closes(line)
        starts == depth = 1 /\ start = 0 /\ opens > closes
        from == IF starts THEN Here ELSE start
        title == IF starts THEN first_xml_tag_name(line) ELSE name
        ends == from # 0 /\ depth + opens - closes <= 1 /\ depth >= 1
    IN /\ ext = "xml"
       /\ depth' = depth + opens - closes
       /\ out' = IF ends THEN Append(out, document_chunk(from, Here, title)) ELSE out
       /\ start' = IF ends THEN 0 ELSE from
       /\ name' = IF ends THEN NoName ELSE title
       /\ UNCHANGED fence

Read(line) ==
    /\ ~done /\ Len(lines) < MaxLines
    /\ lines' = Append(lines, line)
    /\ \/ ReadMarkdown(line) \/ ReadKeyed(line) \/ ReadPlain(line) \/ ReadXml(line)
       \/ ext \in {"json", "csv"} /\ UNCHANGED scanner
    /\ UNCHANGED <<ext, done>>

\* Windows that overlap, the last one ending where the file does.
chunk_text(n, window, stride) ==
    LET Short(i) == (i - 1) * stride + window >= n
    IN IF n = 0 THEN <<>>
       ELSE [i \in 1..(CHOOSE i \in 1..n : Short(i) /\ \A j \in 1..(i - 1) : ~Short(j)) |->
                document_chunk((i - 1) * stride + 1, Min({(i - 1) * stride + window, n}), NoName)]

\* chunk_json: a large file is not indexed at all.
chunk_json(n) == IF n \in 1..(JSON_MAX_LINES - 1) THEN <<document_chunk(1, n, NoName)>> ELSE <<>>

Rest == CASE ext \in Markdown \cup Keyed -> Flushed
          [] ext \in Plain /\ start # 0 -> Paragraph(start, Len(lines))
          [] OTHER -> <<>>

\* A file that gave no chunk becomes one.
Eof ==
    LET n == Len(lines)
    IN /\ ~done /\ done' = TRUE
       /\ out' = IF ext = "csv" THEN chunk_text(n, Window, Stride)
                 ELSE IF ext = "json" THEN chunk_json(n)
                 ELSE IF n > 0 /\ out \o Rest = <<>> THEN <<document_chunk(1, n, NoName)>>
                 ELSE IF n > 0 THEN out \o Rest ELSE <<>>
       /\ UNCHANGED <<ext, lines, start, name, fence, depth>>

DocNext == Eof \/ \E line \in LinesOf(ext) : Read(line)
DocSpec == DocInit /\ [][DocNext]_dvars

-----------------------------------------------------------------------------
(* Properties.                                                             *)

\* Sections start with line one or their header, text and XML may be between chunks.
DocTypeOK ==
    /\ ext \in Ext /\ Len(lines) <= MaxLines /\ start \in 0..Len(lines) + 1
    /\ name \in Name \cup {NoName} /\ fence \in BOOLEAN /\ depth \in Int /\ done \in BOOLEAN
    /\ \A c \in Range(out) : c.start \in 1..c.end /\ c.end <= Len(lines)

\* Chunks come in the order of the file and no line is in two of them; of the section
\* and paragraph formats, every line with text is in one: nothing of a document is left
\* out of the index (chunk_markdown, chunk_by_top_level_key, chunk_plaintext).
LinesPartitioned ==
    /\ ext # "csv" => \A i \in 2..Len(out) : out[i - 1].end < out[i].start
    /\ done /\ ext \in Markdown \cup Keyed \cup Plain =>
          \A i \in DOMAIN lines :
              ~Blank(lines[i]) => \E c \in Range(out) : i \in c.start..c.end

Fenced(i) ==
    Cardinality({j \in 1..(i - 1) : lines[j].kind \in {"backticks", "tildes"}}) % 2 = 1
Header(i) ==
    \/ ext \in Markdown /\ lines[i].kind = "heading" /\ ~Fenced(i)
    \/ ext \in Keyed /\ header_of(lines[i]) # NoName

\* A document is cut at its headers and nowhere else, and a section has the name of the
\* header it starts with: a `#' in a code block is none, whatever came before it.
HeadersCut ==
    done /\ ext \in Markdown \cup Keyed =>
        /\ \A i \in DOMAIN lines : Header(i) =>
              \E c \in Range(out) : c.start = i /\ c.name = lines[i].name
        /\ \A c \in Range(out) : c.start > 1 => Header(c.start)

\* Text is cut at blank lines, and a paragraph longer than PLAINTEXT_MAX_LINES into
\* pieces of that length and a rest.
ParagraphsCut ==
    done /\ ext \in Plain /\ (\E i \in DOMAIN lines : ~Blank(lines[i])) =>
        \A c \in Range(out) :
            /\ \A i \in c.start..c.end : ~Blank(lines[i])
            /\ c.end - c.start < PLAINTEXT_MAX_LINES
            /\ \/ c.end - c.start = PLAINTEXT_MAX_LINES - 1
               \/ c.end = Len(lines) \/ Blank(lines[c.end + 1])

\* Elements that are open after line i: the opening tags before it less the closing ones.
TagsUpTo(i, kind) ==
    UNION {{j} \X {t \in DOMAIN TagsOf(lines[j]) : TagsOf(lines[j])[t].kind = kind} : j \in 1..i}
Depth(i) == Cardinality(TagsUpTo(i, "open")) - Cardinality(TagsUpTo(i, "close"))
OneTagALine ==
    \A i \in DOMAIN lines :
        /\ Len(TagsOf(lines[i])) <= 1 /\ count(lines[i], {"commented", "partial"}) = 0
        /\ Depth(i) >= 0

\* An element below the root opens on line i and is closed on line j.
Child(i, j) ==
    /\ i < j /\ Depth(i - 1) = 1 /\ Depth(i) = 2 /\ Depth(j) = 1
    /\ \A k \in i..(j - 1) : Depth(k) > 1

\* In an XML file with a tag on a line, the chunks are the children of the root that
\* have lines of their own (chunk_xml follows the depth without a parser).
XmlChildren ==
    done /\ ext = "xml" /\ OneTagALine =>
        LET Children == {p \in (DOMAIN lines) \X (DOMAIN lines) : Child(p[1], p[2])}
        IN {<<c.start, c.end>> : c \in Range(out)} =
              IF Children # {} THEN Children
              ELSE IF lines = <<>> THEN {} ELSE {<<1, Len(lines)>>}

\* The windows of a file of unknown format leave no line out and each has a line of its
\* own; they do not go on past the one that reaches the end (chunk_text).
WindowsCover ==
    done /\ ext = "csv" =>
        /\ \A i \in DOMAIN lines : \E c \in Range(out) : i \in c.start..c.end
        /\ \A i \in 2..Len(out) : out[i - 1].start < out[i].start /\ out[i - 1].end < out[i].end

\* No two chunks of a file have one id: the store and the postings would keep only the
\* last (document_chunk, chunk_text).
DocIdsUnique ==
    \A i, j \in DOMAIN out : i # j => ChunkId(out[i]) # ChunkId(out[j])

\* Nothing of a document is left out of the index or put into it twice: the chunks of a
\* file of any format are its lines, cut at its own headers, paragraphs, children or
\* windows, and each has an id of its own.
DocChunksExact ==
    /\ DocTypeOK /\ LinesPartitioned /\ HeadersCut /\ ParagraphsCut /\ XmlChildren
    /\ WindowsCover /\ DocIdsUnique

-----------------------------------------------------------------------------
(* What comments say and the code does not do; see the README.             *)

\* chunk_markdown: "we don't treat `#' inside code as headings". A fence of backticks
\* inside one of tildes ends it.
CodeIsNoHeading ==
    done /\ ext \in Markdown =>
        \A i, j \in DOMAIN lines : \A k \in (i + 1)..(j - 1) :
            (/\ lines[i].kind = "tildes" /\ lines[j].kind = "tildes"
             /\ \A l \in 1..(j - 1) : l # i => lines[l].kind # "tildes"
             /\ \A l \in 1..i : lines[l].kind # "backticks")
            => \A c \in Range(out) : c.start # k

\* chunk_xml: "Each direct child of the root becomes one chunk".
EachChildChunked ==
    done /\ ext = "xml" /\ lines # <<>> /\ lines[1] = Tags(<<[kind |-> "open", name |-> CHOOSE n \in Name : TRUE]>>) =>
        \A i \in DOMAIN lines :
            (/\ Depth(i - 1) = 1 /\ Len(TagsOf(lines[i])) = 2
             /\ lines[i].tags[1].kind = "open" /\ lines[i].tags[2].kind = "close")
            => \E c \in Range(out) : c.start = i

\* chunk_yaml: "Comments and blank lines are bundled with the following key's section".
CommentsWithNextKey ==
    done /\ ext \in Yaml =>
        \A c \in Range(out) : lines[c.end].kind = "comment" => c.end = Len(lines)
=============================================================================
