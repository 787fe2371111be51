----------------------------- MODULE Rasterizer -----------------------------
(***************************************************************************)
(* From the corners of a triangle to its pixels: culling and binning       *)
(* (enqueueTriangle), the rejection test of fillTile, and the recursive    *)
(* rasterizer (Rasterizer.cpp), which divides a block in sixteen, fills    *)
(* the parts that are inside all edges and divides those that are neither  *)
(* inside nor outside.  A scene is the four corners of a convex polygon    *)
(* that is drawn as two triangles, in raster coordinates, the culling mode *)
(* and the sizes of the frame buffer and of its tiles.                     *)
(***************************************************************************)
EXTENDS Integers, Sequences, SequencesExt

CONSTANT
    Scenes      \* set of [kTileSize, fFbWidth, fFbHeight, cullingMode, corners]

VARIABLES
    scene,
    triangles,  \* the triangles yet to be drawn
    work,       \* stack of the tiles and blocks left of the current triangle
    filled,     \* the pixels filled so far
    twice       \* the pixels filled more than once

rasterVars == <<scene, triangles, work, filled, twice>>

TriangleOf(a, b, c) == << scene.corners[a], scene.corners[b], scene.corners[c] >>

RasterInit ==
    /\ scene \in Scenes
    /\ triangles = << TriangleOf(1, 2, 3), TriangleOf(1, 3, 4) >>
    /\ work = << >>
    /\ filled = {}
    /\ twice = {}

Lanes == 0 .. 15        \* a vector has sixteen lanes
kXStep == [i \in Lanes |-> i % 4]
kYStep == [i \in Lanes |-> i \div 4]

-----------------------------------------------------------------------------
\* The first half of enqueueTriangle: winding, backface culling and bounding
\* box.
winding(t) == (t[2].x - t[1].x) * (t[3].y - t[1].y) - (t[2].y - t[1].y) * (t[3].x - t[1].x)

Xs(t) == {t[i].x : i \in 1 .. 3}
Ys(t) == {t[i].y : i \in 1 .. 3}

woundCCW(t) == winding(t) < 0

Culled(t) ==
    \/ winding(t) = 0
    \/ scene.cullingMode = "kCullCW" /\ ~woundCCW(t)
    \/ scene.cullingMode = "kCullCCW" /\ woundCCW(t)
    \/ Max(Xs(t)) < 0 \/ Min(Xs(t)) >= scene.fFbWidth
    \/ Max(Ys(t)) < 0 \/ Min(Ys(t)) >= scene.fFbHeight

\* The tiles the bounding box may overlap.
TilesFrom(bb) == Max({bb \div scene.kTileSize, 0})
TilesTo(bb, n) == Min({bb \div scene.kTileSize, n - 1})

NumTiles(size) == (size + scene.kTileSize - 1) \div scene.kTileSize

Binned(t) ==
    LET minX == TilesFrom(Min(Xs(t)))
        minY == TilesFrom(Min(Ys(t)))
        columns == TilesTo(Max(Xs(t)), NumTiles(scene.fFbWidth)) - minX + 1
        rows == TilesTo(Max(Ys(t)), NumTiles(scene.fFbHeight)) - minY + 1
    IN  [k \in 1 .. columns * rows |->
            [left |-> (minX + ((k - 1) % columns)) * scene.kTileSize,
             top |-> (minY + ((k - 1) \div columns)) * scene.kTileSize]]

\* fillTile and fillTriangle want counterclockwise corners.
CounterClockwise(t) == IF woundCCW(t) THEN t ELSE << t[1], t[3], t[2] >>

-----------------------------------------------------------------------------
edgeRejected(left, top, right, bottom, p, q) ==
    LET cx == IF q.y > p.y THEN right ELSE left
        cy == IF q.x > p.x THEN top ELSE bottom
    IN  (q.x - p.x) * (cy - p.y) - (q.y - p.y) * (cx - p.x) > 0

triangleRejected(tile, t) ==
    LET rejected(p, q) == edgeRejected(tile.left, tile.top, tile.left + scene.kTileSize,
                                       tile.top + scene.kTileSize, p, q)
    IN  rejected(t[1], t[2]) \/ rejected(t[2], t[3]) \/ rejected(t[3], t[1])

\* The edges that give a pixel on them to the neighbour ("top left fill
\* convention").
TopLeft_inclusive(p, q) == p.y >= q.y                                     \* mutant
TopLeft(p, q) == p.y > q.y \/ (p.y = q.y /\ q.x > p.x)

\* The value of an edge at the corner of the tile to accept it by and at the
\* corner to reject it by, and the steps from there to the sixteen parts.
setupRecurseEdge(tile, p, q) ==
    LET far == scene.kTileSize - 1
        back == (scene.kTileSize * 3) \div 4
        xStep == q.y - p.y
        yStep == q.x - p.x
        right == q.y > p.y      \* accepted at the right, rejected at the left
        below == ~(q.x > p.x)   \* accepted at the bottom, rejected at the top
        bias == IF TopLeft(p, q) THEN 1 ELSE 0
        value(r, b) == (tile.left + (IF r THEN far ELSE 0) - p.x) * xStep
                         - (tile.top + (IF b THEN far ELSE 0) - p.y) * yStep + bias
        step(r, b) == [i \in Lanes |->
            (kXStep[i] * (scene.kTileSize \div 4) - (IF r THEN back ELSE 0)) * xStep
              - (kYStep[i] * (scene.kTileSize \div 4) - (IF b THEN back ELSE 0)) * yStep]
    IN  [accept |-> value(right, below), reject |-> value(~right, ~below),
         acceptStep |-> step(right, below), rejectStep |-> step(~right, ~below)]

\* fillTriangle: the sweep for small triangles is disabled (kMaxSweep is 0).
fillTriangle(tile, t) ==
    [size |-> scene.kTileSize, left |-> tile.left, top |-> tile.top,
     edges |-> << setupRecurseEdge(tile, t[1], t[3]),
                  setupRecurseEdge(tile, t[3], t[2]),
                  setupRecurseEdge(tile, t[2], t[1]) >>]

-----------------------------------------------------------------------------
\* Which of the sixteen parts of a block are inside all edges, and which are
\* outside one.
AcceptMask(b) ==
    {i \in Lanes : \A e \in 1 .. 3 : b.edges[e].accept + b.edges[e].acceptStep[i] <= 0}
RejectMask_any(b) ==                                                      \* mutant
    {i \in Lanes : \E e \in 1 .. 3 : b.edges[e].reject + b.edges[e].rejectStep[i] >= 0}
RejectMask(b) ==
    {i \in Lanes : \E e \in 1 .. 3 : b.edges[e].reject + b.edges[e].rejectStep[i] > 0}

PartLeft(b, i) == b.left + (i % 4) * (b.size \div 4)
PartTop(b, i) == b.top + (i \div 4) * (b.size \div 4)

\* An accepted part is filled in blocks of 4 by 4 up to the clip edges; at the
\* end of the recursion a part is one pixel.
RoundUp4(n) == ((n + 3) \div 4) * 4

FilledPart(b, i) ==
    LET size == b.size \div 4
        hcount == Min({size, scene.fFbWidth - PartLeft(b, i)})
        vcount == Min({size, scene.fFbHeight - PartTop(b, i)})
    IN  IF size = 1
        THEN {<< PartLeft(b, i), PartTop(b, i) >>}
        ELSE (PartLeft(b, i) .. PartLeft(b, i) + RoundUp4(hcount) - 1)
               \X (PartTop(b, i) .. PartTop(b, i) + RoundUp4(vcount) - 1)

\* The part as a block of its own: "divide each step matrix by 4".
Quarter(step) == [i \in Lanes |-> step[i] \div 4]

Part(b, i) ==
    [size |-> b.size \div 4, left |-> PartLeft(b, i), top |-> PartTop(b, i),
     edges |-> [e \in 1 .. 3 |->
        LET edge == b.edges[e] IN
        [accept |-> edge.accept + edge.acceptStep[i],
         reject |-> edge.reject + edge.rejectStep[i],
         acceptStep |-> Quarter(edge.acceptStep), rejectStep |-> Quarter(edge.rejectStep)]]]

Recursed(b) ==
    IF b.size = 4 THEN {}
    ELSE {i \in Lanes \ (AcceptMask(b) \cup RejectMask(b)) :
            PartLeft(b, i) < scene.fFbWidth /\ PartTop(b, i) < scene.fFbHeight}

subdivideTile(b) ==
    LET pixels == UNION {FilledPart(b, i) : i \in AcceptMask(b)}
        parts == SelectSeq([k \in 1 .. 16 |-> k - 1], LAMBDA i : i \in Recursed(b))
    IN  /\ filled' = filled \cup pixels
        /\ twice' = twice \cup (filled \cap pixels)
        /\ work' = [k \in DOMAIN parts |-> Part(b, parts[k])] \o Tail(work)

-----------------------------------------------------------------------------
\* The next triangle is enqueued, or dropped.
Enqueue ==
    /\ work = << >> /\ triangles # << >>
    /\ LET t == Head(triangles) IN
         work' = IF Culled(t) THEN << >>
                 ELSE [k \in DOMAIN Binned(t) |->
                        [tile |-> Binned(t)[k], tri |-> CounterClockwise(t)]]
    /\ triangles' = Tail(triangles)
    /\ UNCHANGED <<scene, filled, twice>>

IsTile(w) == DOMAIN w = {"tile", "tri"}

FillTile ==
    /\ work # << >> /\ IsTile(Head(work))
    /\ LET w == Head(work) IN
         work' = IF triangleRejected(w.tile, w.tri) THEN Tail(work)
                 ELSE << fillTriangle(w.tile, w.tri) >> \o Tail(work)
    /\ UNCHANGED <<scene, triangles, filled, twice>>

Subdivide ==
    /\ work # << >> /\ ~IsTile(Head(work))
    /\ subdivideTile(Head(work))
    /\ UNCHANGED <<scene, triangles>>

Drawn == work = << >> /\ triangles = << >>

RasterNext == Enqueue \/ FillTile \/ Subdivide \/ (Drawn /\ UNCHANGED rasterVars)

RasterSpec == RasterInit /\ [][RasterNext]_rasterVars

-----------------------------------------------------------------------------
\* Twice the area of the corner's two edges and the pixel: the sides of the
\* polygon, all to one hand of a pixel inside it.
Side(k, p) ==
    LET a == scene.corners[k]
        b == scene.corners[IF k = 4 THEN 1 ELSE k + 1]
    IN  (b.x - a.x) * (p[2] - a.y) - (b.y - a.y) * (p[1] - a.x)

Clockwise(p) == \A k \in 1 .. 4 : Side(k, p) > 0
AntiClockwise(p) == \A k \in 1 .. 4 : Side(k, p) < 0

\* In a polygon that is facing the viewer, or outside of it or facing away.
Shown(p) ==
    \/ Clockwise(p) /\ scene.cullingMode # "kCullCW"
    \/ AntiClockwise(p) /\ scene.cullingMode # "kCullCCW"
Hidden(p) ==
    \/ Clockwise(p) /\ scene.cullingMode = "kCullCW"
    \/ AntiClockwise(p) /\ scene.cullingMode = "kCullCCW"
    \/ (\E k \in 1 .. 4 : Side(k, p) > 0) /\ (\E k \in 1 .. 4 : Side(k, p) < 0)

\* Two triangles that share an edge cover their polygon without a gap and
\* without drawing over each other: every pixel of the frame buffer inside
\* the polygon is filled, also on the diagonal, no pixel outside it is, and
\* none is filled twice, whatever part of it is off the screen and however
\* the blocks were divided; and nothing is filled of a polygon that the culling
\* mode removes.  (Rasterizer.cpp, and enqueueTriangle's culling and binning)
FilledOnce ==
    /\ twice = {}
    /\ Drawn => \A p \in (0 .. scene.fFbWidth - 1) \X (0 .. scene.fFbHeight - 1) :
                    /\ Shown(p) => p \in filled
                    /\ Hidden(p) => p \notin filled

=============================================================================
