----------------------------- MODULE MCConverter -----------------------------
(* Directories with two threads that attached once, and with one thread that *)
(* attached twice.  Frames differ in the method only and in the line only.   *)
EXTENDS Converter, TLC

MCFrames == {[mid |-> 1, lineNo |-> 1], [mid |-> 1, lineNo |-> 2], [mid |-> 2, lineNo |-> 1]}
MCPaths == {s \in SeqOf(MCFrames, 2) : s # <<>>}
\* constructContext leaves out a frame with the method of the one before.
MCTracePaths == {s \in MCPaths : Len(s) = 2 => s[1].mid # s[2].mid}
MCLine(path, value, cut) == [path |-> path, value |-> value, cut |-> cut]

\* A whole line, or a whole line and a line that may be cut.
MCFiles ==
    {<<>>} \cup {<<MCLine(p, 1, "no")>> : p \in MCTracePaths}
    \cup {<<MCLine(p, 1, "no"), MCLine(q, 2, cut)>> :
            p \in MCTracePaths, q \in {<<f>> : f \in MCFrames}, cut \in {"no", "path", "bar"}}

Mids(lines) == UNION {{lines[n].path[i].mid : i \in DOMAIN lines[n].path} : n \in DOMAIN lines}

\* constructContext writes the paths of trace to cachemiss too, with a constant; the file may
\* stop at another place, here before or in its second line.
Cachemiss(trace, cut) ==
    [n \in IF cut = "gone" THEN DOMAIN trace \ {2} ELSE DOMAIN trace |->
        MCLine(trace[n].path, 5, IF n = 2 THEN cut ELSE "no")]

\* The files of an attachment: the methods of its paths are named (CallPaths), and a file
\* without a line was not created.
Attachment(trace, cut, alloc, objects) ==
    LET lines == [method |-> [m \in Mids(trace) \cup Mids(alloc) |-> objects],
                  cachemiss |-> Cachemiss(trace, cut), trace |-> trace, alloc |-> alloc]
    IN  [kind \in {k \in DOMAIN lines : lines[k] # <<>>} |-> lines[kind]]

\* The second thread has one sample; or allocations or samples, and its method file could
\* not be opened; or files that are empty or stop within their first line.
MCSecond ==
    {Attachment(<<MCLine(p, 1, "no")>>, "no", <<>>, "o2") : p \in MCTracePaths}
    \cup {[alloc |-> <<MCLine(p, 1, "no")>>] : p \in MCPaths}
    \cup {[trace |-> <<MCLine(<<f>>, 1, "no")>>, cachemiss |-> <<MCLine(<<f>>, 5, "no")>>] :
             f \in MCFrames}
    \cup {[method |-> <<>>, trace |-> t, cachemiss |-> c] :
             t \in {<<>>, <<MCLine(<<>>, 0, "path")>>}, c \in {<<>>, <<MCLine(<<>>, 0, "path")>>}}

MCTwoThreads ==
    {(1 :> <<Attachment(f, "no", f, "o1")>>) @@ (2 :> <<b>>) : f \in MCFiles, b \in MCSecond}

\* cachemiss is cut elsewhere than trace and alloc.
MCCuts ==
    {1 :> <<Attachment(f, cut, f, "o1")>> : f \in MCFiles, cut \in {"path", "bar", "gone"}}

MCTwice ==
    {1 :> <<Attachment(f, "no", f, "o1"), Attachment(g, "no", g, "o2")>> :
        f \in MCFiles, g \in {<<MCLine(p, 3, "no")>> : p \in MCTracePaths}}

\* The last name is not in the file yet.
MCUnnamed ==
    {1 :> <<[Attachment(f, "no", f, "o1") EXCEPT !.method = [m \in {1} |-> "o1"]]>> :
        f \in MCFiles \ {<<>>}}

\* A sample after more than 2^31 bytes were allocated.
MCNegative ==
    {1 :> <<Attachment(<<MCLine(p, -1, "no")>>, "no", <<>>, "o1")>> : p \in MCTracePaths}

MCDirectories == MCTwoThreads \cup MCCuts \cup MCTwice \cup MCUnnamed \cup MCNegative

=============================================================================
