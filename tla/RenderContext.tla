---------------------------- MODULE RenderContext ----------------------------
(***************************************************************************)
(* Drawing frames (librender/RenderContext.cpp): the draw commands of a    *)
(* frame are queued, then finish() shades their vertices, sets up and bins *)
(* their triangles into a queue per tile, and fills the tiles.  Each of    *)
(* these is a batch of ParallelJobs, and the bins are CommandQueues that   *)
(* the jobs of a batch append to together.  Coordinates are left out: a    *)
(* triangle is its vertices, how many of them the near plane clips, and,   *)
(* for every piece that leaves, the tiles its bounding box touches (none   *)
(* when it is culled).                                                     *)
(***************************************************************************)
EXTENDS CommandQueue, ParallelJobs

CONSTANTS
    TILES,          \* fTileColumns * fTileRows
    VERTEX_GROUP,   \* vertices a shadeVertices job shades, 16 in the code
    Frames          \* sequence of [wireframe, commands]; a command is
                    \* [vertices, triangles], a triangle [v, clipped, pieces]

Tiles == 0 .. TILES - 1
Draw == TILES       \* fDrawQueue

ASSUME RenderAssumption ==
    /\ Threads = JobThreads /\ Queues = 0 .. TILES
    /\ TILES \in Nat \ {0} /\ VERTEX_GROUP \in Nat \ {0}

VARIABLES
    frame,                \* the frame the application draws
    stage,                \* what the main thread does next
    command,              \* fRenderCommandIterator
    fBaseSequenceNumber,
    shaded,               \* the vertices in state.fVertexParams
    todo,                 \* what the set-up job of each thread has yet to append
    drawn                 \* what was drawn in each tile

contextVars == <<frame, stage, command, fBaseSequenceNumber, shaded, todo, drawn>>
vars == <<queueVars, jobVars, contextVars>>

Commands == Frames[frame].commands

Init ==
    /\ QueueInit
    /\ JobsInit
    /\ frame = 1
    /\ stage = "draw"
    /\ command = 1
    /\ fBaseSequenceNumber = 0
    /\ shaded = {}
    /\ todo = [t \in Threads |-> << >>]
    /\ drawn = [i \in Tiles |-> << >>]

\* The main thread is not in parallel_execute and not in append.
MainAt(s) == stage = s /\ at[Main] = "idle" /\ call[Main] = Idle

-----------------------------------------------------------------------------
\* drawElements appends the current state to the draw queue.
drawElements ==
    /\ MainAt("draw")
    /\ frame <= Len(Frames) /\ command <= Len(Commands)
    /\ append(Main, Draw, command)
    /\ command' = command + 1
    /\ UNCHANGED <<jobVars, frame, stage, fBaseSequenceNumber, shaded, todo, drawn>>

\* finish: a new array of tiles.
NewTiles ==
    /\ MainAt("draw")
    /\ frame <= Len(Frames) /\ command > Len(Commands)
    /\ reset(Tiles)
    /\ fBaseSequenceNumber' = 0
    /\ command' = 1
    /\ stage' = "shade"
    /\ drawn' = [i \in Tiles |-> << >>]
    /\ UNCHANGED <<jobVars, frame, shaded, todo>>

State == Commands[Visited(Draw)[command]]

NumGroups_floor(numVertices) == numVertices \div VERTEX_GROUP             \* mutant
NumGroups(numVertices) == (numVertices + VERTEX_GROUP - 1) \div VERTEX_GROUP

\* The geometry phase, two batches per command.
StartShading ==
    /\ MainAt("shade")
    /\ command <= Len(Visited(Draw))
    /\ parallel_execute("shadeVertices", NumGroups(State.vertices))
    /\ stage' = "setUp"
    /\ shaded' = {}
    /\ UNCHANGED <<queueVars, frame, command, fBaseSequenceNumber, todo, drawn>>

StartSetUp ==
    /\ MainAt("setUp")
    /\ parallel_execute("setUpTriangle", Len(State.triangles))
    /\ stage' = "next"
    /\ UNCHANGED <<queueVars, frame, command, fBaseSequenceNumber, shaded, todo, drawn>>

BaseAfter_same(base, n) == base                                           \* mutant
BaseAfter(base, n) == base + n

NextCommand ==
    /\ MainAt("next")
    /\ fBaseSequenceNumber' = BaseAfter(fBaseSequenceNumber, Len(State.triangles))
    /\ command' = command + 1
    /\ stage' = "shade"
    /\ UNCHANGED <<queueVars, jobVars, frame, shaded, todo, drawn>>

\* The pixel phase.
StartFill ==
    /\ MainAt("shade")
    /\ command > Len(Visited(Draw))
    /\ parallel_execute(IF Frames[frame].wireframe THEN "wireframeTile" ELSE "fillTile", TILES)
    /\ stage' = "clean"
    /\ UNCHANGED <<queueVars, frame, command, fBaseSequenceNumber, shaded, todo, drawn>>

CleanUp ==
    /\ MainAt("clean")
    /\ reset({Draw})
    /\ frame' = frame + 1
    /\ command' = 1
    /\ stage' = "draw"
    /\ UNCHANGED <<jobVars, fBaseSequenceNumber, shaded, todo, drawn>>

-----------------------------------------------------------------------------
Runs(t, func) == at[t] = "run" /\ current_func = func

\* The mask keeps the vertices of the last group.
shadeVertices(t) ==
    /\ Runs(t, "shadeVertices")
    /\ shaded' = shaded \cup
          {v \in 0 .. State.vertices - 1 : v \div VERTEX_GROUP = this_index[t]}
    /\ JobReturns(t)
    /\ UNCHANGED <<queueVars, frame, stage, command, fBaseSequenceNumber, todo, drawn>>

\* Triangles left of one of which so many vertices are clipped: the switch of
\* setUpTriangle, clipOne and clipTwo.
Pieces(clipped) == CASE clipped = 1 -> 2 [] clipped \in {0, 2} -> 1 [] OTHER -> 0

\* enqueueTriangle for every piece: an append to each tile, in tile order.
Enqueued(sequence, tri) ==
    FlattenSeq([p \in 1 .. Pieces(tri.clipped) |->
        LET tiles == SetToSortSeq(tri.pieces[p], <) IN
        [k \in DOMAIN tiles |-> [tile |-> tiles[k], tri |-> [sequence |-> sequence, piece |-> p]]]])

setUpTriangle(t) ==
    /\ Runs(t, "setUpTriangle")
    /\ Goto(t, "run", "body")
    /\ todo' = [todo EXCEPT ![t] = Enqueued(fBaseSequenceNumber + this_index[t],
                                            State.triangles[this_index[t] + 1])]
    /\ UNCHANGED <<queueVars, current_func, current_index, max_index, active_jobs, this_index,
                   num_elements, ran, overrun, frame, stage, command, fBaseSequenceNumber,
                   shaded, drawn>>

EnqueueNext(t) ==
    /\ at[t] = "body" /\ todo[t] # << >>
    /\ append(t, Head(todo[t]).tile, Head(todo[t]).tri)
    /\ todo' = [todo EXCEPT ![t] = Tail(@)]
    /\ UNCHANGED <<jobVars, frame, stage, command, fBaseSequenceNumber, shaded, drawn>>

SetUpReturns(t) ==
    /\ at[t] = "body" /\ todo[t] = << >> /\ call[t] = Idle
    /\ JobReturns(t)
    /\ UNCHANGED <<queueVars, contextVars>>

\* tile.sort(): "put them back in the order they were submitted".
SubmissionOrder_unsorted(s) == s                                          \* mutant
SubmissionOrder(s) ==
    sort(s, [i \in DOMAIN s |-> IF s[i] = Unset THEN 0 ELSE s[i].sequence])

fillTile(t) ==
    /\ Runs(t, "fillTile")
    /\ drawn' = [drawn EXCEPT ![this_index[t]] = SubmissionOrder(Visited(this_index[t]))]
    /\ JobReturns(t)
    /\ UNCHANGED <<queueVars, frame, stage, command, fBaseSequenceNumber, shaded, todo>>

wireframeTile(t) ==
    /\ Runs(t, "wireframeTile")
    /\ drawn' = [drawn EXCEPT ![this_index[t]] = Visited(this_index[t])]
    /\ JobReturns(t)
    /\ UNCHANGED <<queueVars, frame, stage, command, fBaseSequenceNumber, shaded, todo>>

-----------------------------------------------------------------------------
MainStep ==
    \/ drawElements \/ NewTiles \/ StartShading \/ StartSetUp \/ NextCommand
    \/ StartFill \/ CleanUp

Job(t) ==
    \/ shadeVertices(t) \/ setUpTriangle(t) \/ EnqueueNext(t) \/ SetUpReturns(t)
    \/ fillTile(t) \/ wireframeTile(t)

ThreadStep(t) ==
    \/ t = Main /\ MainStep
    \/ JobsStep(t) /\ UNCHANGED <<queueVars, contextVars>>
    \/ QueueStep(t) /\ UNCHANGED <<jobVars, contextVars>>
    \/ Job(t)

\* The application has drawn its frames.  A job of an index its batch has not
\* works on memory past the buffers: the model ends there.
Stop == (frame > Len(Frames) \/ overrun) /\ UNCHANGED vars

Next == (~overrun /\ \E t \in Threads : ThreadStep(t)) \/ Stop

\* Every hardware thread keeps running.
Fairness == \A t \in Threads : WF_vars(~overrun /\ ThreadStep(t))
Spec == Init /\ [][Next]_vars /\ Fairness

-----------------------------------------------------------------------------
\* A set-up job never reads a vertex the shading batch before it has not
\* written: the batches of a command are kept apart by parallel_execute, and
\* the groups cover all the vertices.
VerticesReady ==
    \A t \in Threads :
        Runs(t, "setUpTriangle") /\ ~overrun =>
            State.triangles[this_index[t] + 1].v \subseteq shaded

\* All that the commands of the frame put in a tile, in submission order.
Submitted(i) ==
    LET before(c) == FoldFunctionOnSet(+, 0, [k \in DOMAIN Commands |-> Len(Commands[k].triangles)],
                                       1 .. c - 1)
        ofCommand(c) == FlattenSeq([k \in DOMAIN Commands[c].triangles |->
                            Enqueued(before(c) + k - 1, Commands[c].triangles[k])])
        all == FlattenSeq([c \in DOMAIN Commands |-> ofCommand(c)])
        here == SelectSeq(all, LAMBDA e : e.tile = i)
    IN  [k \in DOMAIN here |-> here[k].tri]

\* At the end of a frame every tile was drawn with exactly the triangles that
\* touch it, in the order the application submitted them (in any order in
\* wireframe mode), however the jobs interleaved.  Only the two races of the
\* lock-free append and the overrun of a smaller batch can break this.
TilesInOrder ==
    MainAt("clean") /\ ~overrun /\ ~raced =>
        \A i \in Tiles :
            IF Frames[frame].wireframe
            THEN /\ ToSet(drawn[i]) = ToSet(Submitted(i))
                 /\ Len(drawn[i]) = Len(Submitted(i))
            ELSE drawn[i] = Submitted(i)

=============================================================================
