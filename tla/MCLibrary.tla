----------------------------- MODULE MCLibrary ------------------------------
(* Programs that use one part of the library each.                         *)
EXTENDS Queues, Trees, LineInput, LineBuffers, Strings, VisStrings, Numbers, Signals, TLC

VARIABLE using

MCKinds == AllKinds
MCTreeKinds == {"RB", "SPLAY"}
MCElms == 1..9
MCSplayElms == MCElms \ {7, 8}     \* what is ever in the splay tree
MCKey == [e \in MCElms |-> IF e = 9 THEN 4 ELSE e]

P(e, con, com, flags) == [esc |-> e, con |-> con, com |-> com, flags |-> flags]
UnescAll == {"esc", "cont", "comm", "rest"}
MCParams ==
  {P("\\", "\\", "#", f) : f \in {UnescAll, {}}}
  \cup {P("^", "\\", "#", f) : f \in {{"comm", "rest"}}}
  \cup {P(NUL, "\\", "#", UnescAll), P("\\", NUL, "#", {"esc"}), P("\\", "\\", NUL, {"cont"})}
MCPieces == {<<>>, <<"a">>, <<"a", "b">>}
MCVisBytes == {0, 10, 35, 49, 92, 138}
MCVisFlags == {{}, {"cstyle"}, {"octal", "glob"}, {"httpstyle"}}
MCNames == <<>>
MCTexts == [value : -20..20, digits : {TRUE}, trail : BOOLEAN]
           \cup [value : {0}, digits : {FALSE}, trail : {TRUE}]
MCBounds == {<<-8, 7>>, <<-3, 4>>, <<0, 7>>, <<0, 15>>, <<2, 11>>}

(* Amounts where a column, a prefix or a rounding changes; a hundred times *)
(* the greatest is what an integer of TLC holds.                           *)
MCLarge ==
  {0, 1, 9, 10, 94, 95, 99, 100, 511, 512, 948, 949, 950, 972, 973, 994, 995, 999, 1000, 1018, 1019,
   1023, 1024, 1075, 1076, 9499, 9500, 9949, 9950, 9999, 10189, 10240, 99499, 99500, 102348, 102349,
   102399, 996147, 999499, 999500, 1022976, 1022977, 1023487, 1023488, 1048575, 1048576, 9943646,
   9961473, 10480000, 21474835}
MCAmounts == MCLarge \cup {-n : n \in MCLarge}
MCScales == {0, 1, 2, 7, HN_GETSCALE, HN_AUTOSCALE}
MCHnFlags == {{}, {"decimal"}, {"decimal", "nospace"}, {"nospace", "B"}, {"1000"}, {"1000", "decimal", "B"}}

MCInit ==
  /\ QueueInit /\ TreeInit /\ LineInit /\ BufferInit /\ StringInit /\ VisInit
  /\ NumberInit /\ SignalInit
  /\ using \in {"queues", "trees", "lines", "buffers", "pool", "strings", "vis", "numbers",
                "signals"}
  /\ using = "queues" \/ kind = "LIST"
  /\ using = "trees" \/ tree = "RB"
  /\ using = "lines" \/ params = P(NUL, "\\", "#", UnescAll)
  /\ using = "buffers" \/ own = Buffer(0, 0)
  /\ using = "strings" \/ job = "quote"
  /\ using = "vis" \/ (source = <<10>> /\ asFlags = {})
  /\ using = "signals" \/ (mask = {} /\ \A s \in Sigs : handler[s] = "own")

containerVars == <<queueVars, treeVars>>
textVars == <<lineVars, bufferVars, stringVars, visVars>>
otherVars == <<numberVars, signalVars>>
allVars == <<using, containerVars, textVars, otherVars>>

MCNext ==
  /\ UNCHANGED using
  /\ \/ using = "queues" /\ QueueNext /\ UNCHANGED <<treeVars, textVars, otherVars>>
     \/ /\ using = "trees" /\ TreeNext /\ UNCHANGED <<queueVars, textVars, otherVars>>
        /\ tree = "SPLAY" => stored' \subseteq MCSplayElms
     \/ using = "lines" /\ LineNext /\ UNCHANGED <<containerVars, bufferVars, stringVars, visVars, otherVars>>
     \/ using = "buffers" /\ OwnNext /\ UNCHANGED <<containerVars, lineVars, stringVars, visVars, otherVars>>
     \/ using = "pool" /\ PoolNext /\ UNCHANGED <<containerVars, lineVars, stringVars, visVars, otherVars>>
     \/ using = "strings" /\ StringNext /\ UNCHANGED <<containerVars, lineVars, bufferVars, visVars, otherVars>>
     \/ using = "vis" /\ VisNext /\ UNCHANGED <<containerVars, lineVars, bufferVars, stringVars, otherVars>>
     \/ using = "numbers" /\ NumberNext /\ UNCHANGED <<containerVars, textVars, signalVars>>
     \/ using = "signals" /\ SignalNext /\ UNCHANGED <<containerVars, textVars, numberVars>>

MCSpec == MCInit /\ [][MCNext]_allVars
=============================================================================
