------------------------------ MODULE MCCommands ------------------------------
EXTENDS MCSnapshotFiles, EditorConfig, Conversion

\* No file at all; an entry of another tool, one of ours that was changed, the one that is
\* replaced; files of another shape, and that do not parse.
Files(global, project, rules, claude) ==
    [f \in Config |-> CASE f = "global" -> global [] f = "project" -> project
                       [] f = "rules" -> rules [] f = "claude" -> claude]
NoFiles == [f \in Config |-> Missing]
const_Before ==
    {NoFiles,
     Files(Object({"other"}, 1), Object({"changed"}, 1), OwnRules, Object({"legacy", "other"}, 1)),
     Files(Missing, Object({"trusty", "other"}, 1), Missing, Object({"legacy", "trusty"}, 1)),
     Files(NotObject, Garbled, OwnRules, Object(NoServers, 1))}

\* A new file gets the first inode that nobody has in hand: which one it is does not matter.
NextFree == tmp' \notin {tmp, NoInode} =>
    \A i \in Inode : i < tmp' => i = file \/ \E w \in Writer : fd[w] = i

\* Two projects of one name.
const_NameOf(p) == IF p = "Web App" THEN "web-app" ELSE p

\* Nothing is registered, or an index that is another's under a name of ours, which the
\* daemon may not have restored yet.
Beginnings ==
    /\ recorded \in {Empty, "lib" :> Elsewhere}
    /\ roots \in {recorded, Empty}

\* Three parts side by side, one of which moves: the files of an index, the files of the
\* editors, the projects that are converted, where a reply is lost or others move twice.
ConfigAtStart == ConfigInit /\ document = NoFiles
ConversionAtStart == ConversionInit /\ recorded = Empty /\ model = "ready"
MCInit == Init /\ ConfigInit /\ ConversionInit /\ Beginnings /\ (ConfigAtStart \/ ConversionAtStart)
MCNext ==
    \/ /\ ConfigAtStart /\ ConversionAtStart /\ Next /\ UNCHANGED <<configvars, convvars>>
       /\ NextFree
    \/ Init /\ ConversionAtStart /\ ConfigNext /\ UNCHANGED <<vars, convvars>>
    \/ /\ Init /\ ConfigAtStart /\ ConversionNext /\ UNCHANGED <<vars, configvars>>
       /\ losses' = 0 \/ others' <= 1
MCSpec == MCInit /\ [][MCNext]_<<vars, configvars, convvars>>
===============================================================================
