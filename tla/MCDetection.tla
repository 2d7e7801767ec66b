----------------------------- MODULE MCDetection -----------------------------
(***************************************************************************)
(* Small instances for TLC of what a scan reads and of how it compares it: *)
(* the region and target snapshots, the agent probe, the detector set, the *)
(* process maps, the region walks and the import tables. The components    *)
(* share no state, so a behaviour follows one of them: side says which, and*)
(* the others stay where they begin.                                       *)
(***************************************************************************)
EXTENDS RuntimeBaseline, DispatchTargets, LocalAgent, DetectorSet, ProcessMaps,
        RegionWalk, ImportTables

CONSTANTS
  Sides,                    \* the components that a run follows
  Pages, MaxSlot, MaxValue

-----------------------------------------------------------------------------
(* Snapshots.                                                              *)

MCRegions ==
  {r \in [start : 0 .. Pages, end : 0 .. Pages, writable : BOOLEAN] :
     r.start < r.end}

Disjoint(q, r) == q.end <= r.start \/ r.end <= q.start

\* Every way to map disjoint regions, listed in any order, at most one more than
\* a snapshot keeps.
MCListings ==
  {listing \in UNION {[1 .. n -> MCRegions] : n \in 1 .. MAX_REGIONS + 1} :
     \A i, j \in DOMAIN listing :
       i # j => Disjoint(listing[i], listing[j])}

MCTargets == [slot : 1 .. MaxSlot, value : 1 .. MaxValue]

\* Tables that gain, lose and move entries, at most one more than a snapshot
\* keeps.
MCTables ==
  {table \in UNION {[1 .. n -> MCTargets] : n \in 0 .. MAX_TARGETS + 1} :
     \A i, j \in DOMAIN table : i # j => table[i].slot # table[j].slot}

-----------------------------------------------------------------------------
(* The agent probe.                                                        *)

HeaderLines == {"upgrade", "connection", "accept", "text"}

\* A first line, up to two header lines, or three or four different ones, or the
\* three that match with a character or with lines around them, an end or none, and
\* a rest that may be cut inside a character. A matching head has five to eight
\* pieces: the buffer of seven has room for a part of the rest, for the head alone,
\* and for less.
MCStreams ==
  LET Distinct(n, lines) ==
        {h \in [1 .. n -> lines] : \A i, j \in 1 .. n : h[i] = h[j] => i = j}
      Three == Distinct(3, {"upgrade", "connection", "accept"})
      Headers == UNION {[1 .. n -> HeaderLines] : n \in 0 .. 2}
                   \cup Distinct(3, HeaderLines) \cup Distinct(4, HeaderLines)
                   \cup {<<"lead", "trail">> \o h : h \in Three}
                   \cup {<<"text", "text">> \o h \o <<"text">> : h \in Three}
      Ends == {<<>>, <<"end">>, <<"end", "text">>, <<"end", "binary">>,
               <<"end", "lead", "trail">>, <<"end", "lead">>}
  IN  {<<"status">> \o headers \o last : headers \in Headers, last \in Ends}
        \cup {<<"text">> \o headers \o last : headers \in Three, last \in Ends}

-----------------------------------------------------------------------------
(* The detector set: no detector gets an answer, or all but one see nothing*)
(* wrong. At most one category is required: one with a detector that       *)
(* compares, one with a detector that only a full scan runs too, and one   *)
(* that only the host reports on.                                          *)

Quiet == [d \in FullScan |-> RuleOf[d].clean]

MCWorlds ==
  {[d \in FullScan |-> a] : a \in {"Unsupported", "Failed", "Panics"}}
    \cup UNION {{[Quiet EXCEPT ![e] = a] : a \in Answers(e)} : e \in FullScan}

MCRequired == {{}, {"Integrity"}, {"Instrumentation"}, {"UiAbuse"}}

-----------------------------------------------------------------------------
(* The process maps.                                                       *)

Img(base, vaddr, align, exec, backing, loader) ==
  [base |-> base, vaddr |-> vaddr, memsz |-> 3, align |-> align, exec |-> exec,
   backing |-> backing, loader |-> loader]

\* An image of the loader with a coarse alignment, code that bypassed it, and
\* code without a file.
MCImages ==
  {Img(6, 1, 4, TRUE, "file", TRUE),
   Img(12, 0, 2, TRUE, "file", FALSE), Img(16, 0, 2, TRUE, "none", FALSE)}

-----------------------------------------------------------------------------
(* The region walks.                                                       *)

Kind(content, writable) == [holds |-> content, writable |-> writable]

MCKinds ==
  {FREE, Kind("other", FALSE), Kind("file", FALSE), Kind("anon", FALSE),
   Kind("private", TRUE)}

-----------------------------------------------------------------------------
(* The import tables.                                                      *)

Dyn(tag, value) == [tag |-> tag, value |-> value]

\* An image of two segments, 10..13 and 16..18, with its relocations in the first
\* and its slots in the second.
MCDynamic(table, units, form) ==
  <<Dyn("JMPREL", table), Dyn("PLTRELSZ", units), Dyn("PLTREL", form),
    Dyn("FLAGS", 8), Dyn("NULL", 0)>>

MCElfImages ==
  {[base |-> 10, main |-> TRUE,
    loads |-> {[vaddr |-> 0, memsz |-> 4], [vaddr |-> 6, memsz |-> 3]},
    dynamic |-> {[vaddr |-> 0, entries |-> SubSeq(MCDynamic(table, units, form), 1, n)]},
    relocations |-> [a \in 0 .. 40 |->
                       [jump |-> a # plain, offset |-> 6 + ((a + shift) % 4)]],
    memory |-> [a \in 0 .. 40 |-> a]] :
     table \in {0, 1, 10, 11, 12}, units \in {0, 1, 2, 3, 4}, form \in {7, 17},
     n \in {4, 5}, plain \in {0, 11}, shift \in {0, 1, 2}}

MCSections ==
  [pointers : BOOLEAN, address : {0, 2, 4}, count : {0, 1, 2, 3}, whole : {TRUE}]
    \cup {[pointers |-> TRUE, address |-> 0, count |-> 1, whole |-> FALSE]}

MCMachImages ==
  {[commands |-> <<[kind |-> "SEGMENT", sound |-> sound, sections |-> <<s, t>>],
                   [kind |-> k, sound |-> TRUE, sections |-> <<>>]>>,
    complete |-> c, slide |-> 20,
    regions |-> {[low |-> 20, high |-> 24], [low |-> 24, high |-> 26]},
    memory |-> [a \in 0 .. 40 |-> a]] :
     s \in MCSections, t \in MCSections, k \in {"CHAINED_FIXUPS", "OTHER"},
     c \in BOOLEAN, sound \in BOOLEAN}

MCDescriptors ==
  [name : {TRUE}, lookup : {0, 1, 4}, table : {0, 4, 6}]
    \cup {[name |-> FALSE, lookup |-> 0, table |-> 0]}

MCPeImages ==
  {[base |-> 50, header |-> header, cells |-> cells, gaps |-> gaps,
    directory |-> directory] :
     header \in BOOLEAN,
     cells \in {<<9, 9, 0, 8, 8, 8, 0>>, <<9, 0, 9, 8, 8, 0, 0>>,
                <<9, 0, 9, 8, 8, 0, 7>>},
     gaps \in {{}, {1}},
     directory \in [1 .. 3 -> MCDescriptors]}

-----------------------------------------------------------------------------
VARIABLE side

MCVars == <<vars, dispatchVars, agentVars, setVars, procVars, walkVars, importVars, side>>

MCInit ==
  /\ Init /\ DispatchInit /\ AgentInit /\ SetInit /\ ProcInit /\ WalkInit
  /\ ImportInit
  /\ side \in Sides

MCNext ==
  \/ /\ side = "regions"
     /\ UNCHANGED <<dispatchVars, agentVars, setVars, procVars, walkVars, importVars, side>>
     /\ Next
  \/ /\ side = "targets"
     /\ UNCHANGED <<vars, agentVars, setVars, procVars, walkVars, importVars, side>>
     /\ DispatchNext
  \/ /\ side = "agent"
     /\ UNCHANGED <<vars, dispatchVars, setVars, procVars, walkVars, importVars, side>>
     /\ AgentNext
  \/ /\ side = "set"
     /\ UNCHANGED <<vars, dispatchVars, agentVars, procVars, walkVars, importVars, side>>
     /\ SetNext
  \/ /\ side = "maps"
     /\ UNCHANGED <<vars, dispatchVars, agentVars, setVars, walkVars, importVars, side>>
     /\ ProcNext
  \/ /\ side = "walk"
     /\ UNCHANGED <<vars, dispatchVars, agentVars, setVars, procVars, importVars, side>>
     /\ WalkNext
  \/ /\ side = "imports"
     /\ UNCHANGED <<vars, dispatchVars, agentVars, setVars, procVars, walkVars, side>>
     /\ ImportNext

MCSpec == MCInit /\ [][MCNext]_MCVars

\* The fairness of each component, while a behaviour follows it.
MCFairSpec ==
  /\ MCSpec
  /\ WF_vars(side = "regions" /\ Compare)
  /\ WF_dispatchVars(side = "targets" /\ DispatchCompare)
  /\ WF_agentVars(side = "agent" /\ (Connect \/ ConnectRefused \/ ConnectFails))
  /\ WF_agentVars(side = "agent" /\ (WriteRequest \/ WriteFails))
  /\ WF_agentVars(side = "agent" /\ ReadFails)
  /\ WF_agentVars(side = "agent" /\ Match)
  /\ WF_walkVars(side = "walk" /\ WalkStep)

-----------------------------------------------------------------------------
\* No step of a probe, a comparison or a scan leaves the values that its readers
\* expect, and every component keeps the inductive invariant that its proof rests
\* on: the merge loops have found exactly what the part they passed holds
\* (fact/baseline.rs:115-175, fact/dispatch.rs:120-140), a buffer is a prefix of
\* what the peer sent (local_agent.rs:85-107), a slot holds what its detector
\* answered (detect/src/lib.rs:194-230), the text of procfs is of the process as it
\* was read (procfs/maps.rs:260-278), and a walk has gathered what lies below its
\* cursor (sys/regions.rs:143-210, sys/memory.rs:211-267).
DetectionInv ==
  /\ TypeOK /\ DispatchTypeOK /\ ProcTypeOK
  /\ LoopInv /\ RedirectedInv
  /\ AgentInv /\ SetInv /\ ProcInv /\ WalkInv

\* Whatever one scan calls returns, so the only worker thread is never lost: both
\* comparisons (fact/baseline.rs:115-175, fact/dispatch.rs:120-140), the loopback
\* exchange (local_agent.rs:45-107) and the walks (sys/memory.rs:257-260).
ScansEnd == ScanEnds /\ DispatchScanEnds /\ ProbeEnds /\ WalkEnds
=============================================================================
