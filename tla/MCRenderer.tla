----------------------------- MODULE MCRenderer -----------------------------
(***************************************************************************)
(* Instances of RenderContext and Rasterizer.  A behaviour is of one of    *)
(* the two: the threads drawing frames of triangles without coordinates,   *)
(* or the pixels of one scene.                                             *)
(* In the first frame four triangles meet in tile 0, whose queue has       *)
(* buckets of two, so that a bucket is allocated while others append to    *)
(* it; the second frame is smaller.                                        *)
(***************************************************************************)
EXTENDS RenderContext, Rasterizer, TLC

VARIABLE part       \* "frames" or "pixels"

allVars == <<vars, rasterVars, part>>

SomeScene == CHOOSE s \in Scenes : TRUE

RendererInit ==
    /\ Init /\ RasterInit
    /\ \/ part = "pixels"
       \/ part = "frames" /\ scene = SomeScene

RendererNext ==
    \/ part = "frames" /\ Next /\ UNCHANGED <<rasterVars, part>>
    \/ part = "pixels" /\ RasterNext /\ UNCHANGED <<vars, part>>

\* Every hardware thread keeps running.
RendererSpec ==
    /\ RendererInit /\ [][RendererNext]_allVars
    /\ Fairness

\* The application gets through its frames: nobody waits for ever for a job, a
\* bucket or the spin lock.
FramesFinish == part = "frames" ~> (frame > Len(Frames) \/ overrun)

-----------------------------------------------------------------------------
Tri(v, clipped, pieces) == [v |-> v, clipped |-> clipped, pieces |-> pieces]
Command(vertices, tris) == [vertices |-> vertices, triangles |-> tris]
Frame(wireframe, commands) == [wireframe |-> wireframe, commands |-> commands]

\* A clipped triangle with two pieces and an unclipped one, then a clipped
\* one in another command; in the second frame one behind the near plane.
TwoFrames ==
    << Frame(FALSE, << Command(3, << Tri({0, 1, 2}, 1, << {0}, {0, 1} >>), Tri({2}, 0, << {0} >>) >>),
                       Command(2, << Tri({0, 1}, 2, << {0} >>) >>) >>),
       Frame(TRUE, << Command(1, << Tri({0}, 3, << >>), Tri({0}, 0, << {1} >>) >>) >>) >>

At(x, y) == [x |-> x, y |-> y]

Turn(a, b, c) == (b.x - a.x) * (c.y - a.y) - (b.y - a.y) * (c.x - a.x)
Convex(q) ==
    LET turns == {Turn(q[1], q[2], q[3]), Turn(q[2], q[3], q[4]),
                  Turn(q[3], q[4], q[1]), Turn(q[4], q[1], q[2])}
    IN  (\A n \in turns : n > 0) \/ (\A n \in turns : n < 0)

\* On the screen, on a tile's edge and beyond all four sides of the screen.
Corners == {At(-9, 3), At(2, 2), At(13, -5), At(5, 9), At(20, 11), At(30, 2), At(16, 16),
            At(4, 25), At(27, 19)}

\* The convex polygons with these corners, of either winding, on a screen of
\* 28 by 20 with tiles of 16, in both culling modes, so that each is drawn in
\* one and removed in the other; and two, not culled, with the tile size of the
\* code.
SmallScenes ==
    [kTileSize : {16}, fFbWidth : {28}, fFbHeight : {20}, cullingMode : {"kCullCW", "kCullCCW"},
     corners : {q \in Corners \X Corners \X Corners \X Corners : Convex(q)}]
    \cup [kTileSize : {64}, fFbWidth : {72}, fFbHeight : {24}, cullingMode : {"kCullNone"},
          corners : {<< At(-3, -8), At(70, 1), At(66, 30), At(1, 21) >>,
                     << At(2, 23), At(40, 23), At(71, 0), At(1, 0) >>}]

=============================================================================
