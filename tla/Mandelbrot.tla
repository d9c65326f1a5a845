----------------------------- MODULE Mandelbrot -----------------------------
(***************************************************************************)
(* samples/mandelbrot.cpp: a window shows one view at a time.  A view has  *)
(* its tiles computed and rendered, again and again with more iterations,  *)
(* and sends the window a new picture each time.  A click makes a new view *)
(* that starts from the picture of the one before: the window tells the    *)
(* old view to stop and to start the new one, which may itself be told to  *)
(* stop and to start a third before that happens.                          *)
(*                                                                         *)
(* A region is its scale and its origin, known by the click that chose it; *)
(* a picture is the region that it shows.  GLUT runs in the main thread,   *)
(* which changes the window's m_region without a lock, as NavigateTo does  *)
(* in the pool: a step is a write to one of the region's two parts, or a   *)
(* copy of it.                                                             *)
(***************************************************************************)
EXTENDS Runtime

CONSTANTS
    Tiles,
    MaxViews,   \* bound: views in a behaviour, all but one made by clicks and keys
    MaxRounds   \* bound: how often a tile is iterated before it is good enough

\* What the constants must be.
MandelbrotAssumption ==
    /\ MaxViews \in Nat \ {0}
    /\ MaxRounds \in Nat \ {0}

Glut == <<"glut">>
GlutWindow == <<"window">>
Region == <<"region">>
View(v) == <<"view", v>>
Compute(v, t) == <<"compute", v, t>>
Render(v, t) == <<"render", v, t>>
Views == {View(v) : v \in 1 .. MaxViews}
TileObjects == UNION {{Compute(v, t), Render(v, t)} : v \in 1 .. MaxViews, t \in Tiles}
Objects == {Glut, GlutWindow} \cup Views \cup TileObjects

NoPicture == [scale |-> -1, origin |-> -1]
Home == [scale |-> 0, origin |-> 0]

\* Of Glut, chosen is the region that the last click or key has asked for, and
\* early says of a click that a NavigateTo had yet to write to m_region.
Members ==
    [o \in Objects |->
        CASE o = GlutWindow -> [view |-> 0, m_region |-> NoPicture, shown |-> NoPicture]
          [] o = Glut -> [clicks |-> 0, at |-> "idle", chosen |-> Home, early |-> FALSE]
          [] o[1] = "view" -> [m_dismissed |-> FALSE, m_region |-> NoPicture,
                               m_displayBuffer |-> NoPicture, m_tilesRemaining |-> 0]
          [] o[1] = "compute" -> [rounds |-> 0]
          [] OTHER -> <<>>]

\* main: NavigateTo is sent before the pool and GLUT run.
Init ==
    Starts(Members, [o \in Objects |-> IF o = GlutWindow THEN <<Plain("NavigateTo")>>
                                                         ELSE <<>>])
-----------------------------------------------------------------------------
(* GLUT: OnMouse and OnKeyboard, in the main thread, while the pool runs *)

\* The window has a NavigateTo in its mailbox, or is in the middle of its writes.
WillWrite ==
    \/ \E i \in DOMAIN box[GlutWindow] : box[GlutWindow][i].is = "NavigateTo"
    \/ \E i \in DOMAIN todo[GlutWindow] : todo[GlutWindow][i] = To(Region, Plain("Scale"))

\* First the scale is changed, then the origin, then Navigate is sent.
ClickScale ==
    LET e == local[Glut].clicks + 1
    IN  /\ local[Glut].at = "idle"
        /\ e < MaxViews
        /\ local' = [local EXCEPT ![Glut] =
                                    [clicks |-> e, at |-> "scaled", early |-> WillWrite,
                                     chosen |-> [scale |-> e, origin |-> e]],
                                  ![GlutWindow].m_region.scale = e]
        /\ UNCHANGED <<box, todo>>

ClickOrigin ==
    /\ local[Glut].at = "scaled"
    /\ local' = [local EXCEPT ![Glut].at = "moved",
                              ![GlutWindow].m_region.origin = local[Glut].clicks]
    /\ UNCHANGED <<box, todo>>

ClickNavigates ==
    /\ local[Glut].at = "moved"
    /\ local' = [local EXCEPT ![Glut].at = "idle"]
    /\ box' = [box EXCEPT ![GlutWindow] = Append(@, Plain("Navigate"))]
    /\ UNCHANGED todo

\* The space key.
KeySpace ==
    /\ local[Glut].at = "idle"
    /\ local[Glut].clicks + 1 < MaxViews
    /\ local' = [local EXCEPT ![Glut] = [clicks |-> @.clicks + 1, at |-> "idle",
                                          early |-> FALSE, chosen |-> Home]]
    /\ box' = [box EXCEPT ![GlutWindow] = Append(@, Plain("NavigateTo"))]
    /\ UNCHANGED todo
-----------------------------------------------------------------------------
(* GlutWindow *)

StartView(v, region) == To(View(v), [is |-> "Start", region |-> region])
Update(region) == To(GlutWindow, [is |-> "Update", picture |-> region])

\* To the whole set, with a view of its own.  The origin is written first.
NavigateTo ==
    LET old == local[GlutWindow].view
    IN  /\ Gets(GlutWindow, "NavigateTo")
        /\ local' = [local EXCEPT ![GlutWindow].view = old + 1,
                                  ![GlutWindow].m_region.origin = Home.origin,
                                  ![GlutWindow].shown = NoPicture]
        /\ Does(GlutWindow, <<To(Region, Plain("Scale"))>>
                               \o (IF old # 0 THEN <<To(View(old), Plain("Stop"))>> ELSE <<>>)
                               \o <<To(Region, Plain("Start"))>>)

\* What it does to m_region later on is not a call, but waits its turn in todo.
NavigateToDoes(what) ==
    todo[GlutWindow] # <<>> /\ Calling(GlutWindow) = To(Region, Plain(what))

NavigateToScale ==
    /\ NavigateToDoes("Scale")
    /\ local' = [local EXCEPT ![GlutWindow].m_region.scale = Home.scale]
    /\ Continue(GlutWindow, <<>>)
    /\ UNCHANGED box

NavigateToStart ==
    /\ NavigateToDoes("Start")
    /\ Continue(GlutWindow, <<StartView(local[GlutWindow].view, local[GlutWindow].m_region)>>)
    /\ UNCHANGED <<local, box>>

Navigate ==
    LET old == View(local[GlutWindow].view)
        new == local[GlutWindow].view + 1
    IN  /\ Gets(GlutWindow, "Navigate")
        /\ local' = [local EXCEPT ![GlutWindow].view = new]
        /\ Does(GlutWindow,
              <<To(old, Plain("Stop")),
                To(old, [is |-> "ZoomTo", region |-> local[GlutWindow].m_region,
                         view |-> new])>>)

ShowUpdate ==
    /\ Gets(GlutWindow, "Update")
    /\ local' = [local EXCEPT ![GlutWindow].shown = First(GlutWindow).picture]
    /\ Does(GlutWindow, <<>>)
-----------------------------------------------------------------------------
(* View *)

TilesInOrder == SetToSeq(Tiles)

\* Every tile gets a region and its first iterations.
StartTiles(v) == [i \in DOMAIN TilesInOrder |->
                    To(Compute(v, TilesInOrder[i]), Plain("Iterate"))]

\* Start and StartFromOtherView.
ViewStarts(v, type) ==
    /\ Gets(View(v), type)
    /\ \/ /\ local[View(v)].m_dismissed
          /\ Does(View(v), <<>>)
          /\ UNCHANGED local
       \/ /\ ~local[View(v)].m_dismissed
          /\ local' = [local EXCEPT ![View(v)] =
                [m_dismissed |-> FALSE, m_region |-> First(View(v)).region,
                 m_displayBuffer |-> First(View(v)).region,
                 m_tilesRemaining |-> Cardinality(Tiles)]]
          /\ Does(View(v), StartTiles(v))

ViewStop(v) ==
    /\ Gets(View(v), "Stop")
    /\ local' = [local EXCEPT ![View(v)].m_dismissed = TRUE]
    /\ Does(View(v), <<>>)

\* Mutant: a view that has no picture yet has nothing to start another one with.
ZoomToNothing(v) ==
    LET m == First(View(v))
    IN  /\ Gets(View(v), "ZoomTo")
        /\ local' = [local EXCEPT ![View(v)].m_dismissed = TRUE]
        /\ Does(View(v),
              IF local[View(v)].m_displayBuffer = NoPicture
                THEN <<>>
                ELSE <<Update(m.region),
                       To(View(m.view), [is |-> "StartFromOtherView", region |-> m.region])>>)

\* With no picture of its own yet the view starts the new one from nothing.
ZoomTo(v) ==
    LET m == First(View(v))
    IN  /\ Gets(View(v), "ZoomTo")
        /\ local' = [local EXCEPT ![View(v)].m_dismissed = TRUE]
        /\ Does(View(v),
              IF local[View(v)].m_displayBuffer = NoPicture
                THEN <<StartView(m.view, m.region)>>
                ELSE <<Update(m.region),
                       To(View(m.view), [is |-> "StartFromOtherView", region |-> m.region])>>)

\* A tile is ready: show it, and iterate it again unless it is good enough.
RenderReady(v) ==
    LET t == First(View(v)).tile
    IN  /\ Gets(View(v), "RenderReady")
        /\ \/ /\ local[View(v)].m_dismissed
              /\ Does(View(v), <<>>)
              /\ UNCHANGED local
           \/ /\ ~local[View(v)].m_dismissed
              /\ First(View(v)).rounds < MaxRounds
              /\ Does(View(v), <<Update(local[View(v)].m_displayBuffer),
                                 To(Compute(v, t), Plain("Iterate"))>>)
              /\ UNCHANGED local
           \/ /\ ~local[View(v)].m_dismissed
              /\ local' = [local EXCEPT ![View(v)].m_tilesRemaining = @ - 1]
              /\ Does(View(v), <<Update(local[View(v)].m_displayBuffer)>>)
-----------------------------------------------------------------------------
(* ComputeRegion, RenderRegion *)

Iterate(v, t) ==
    /\ Gets(Compute(v, t), "Iterate")
    /\ local' = [local EXCEPT ![Compute(v, t)].rounds = @ + 1]
    /\ Does(Compute(v, t), <<To(Render(v, t), [is |-> "ComputeReady",
                                              rounds |-> local[Compute(v, t)].rounds + 1])>>)

ComputeReady(v, t) ==
    /\ Gets(Render(v, t), "ComputeReady")
    /\ Does(Render(v, t), <<To(View(v), [is |-> "RenderReady", tile |-> t,
                                         rounds |-> First(Render(v, t)).rounds])>>)
    /\ UNCHANGED local

ViewStep(v) ==
    \/ ViewStarts(v, "Start") \/ ViewStarts(v, "StartFromOtherView")
    \/ ViewStop(v) \/ ZoomTo(v) \/ RenderReady(v)
    \/ \E t \in Tiles : Iterate(v, t) \/ ComputeReady(v, t)

Next ==
    \/ \E o \in Objects : Call(o)
    \/ ClickScale \/ ClickOrigin \/ ClickNavigates \/ KeySpace
    \/ NavigateTo \/ NavigateToScale \/ NavigateToStart \/ Navigate \/ ShowUpdate
    \/ \E v \in 1 .. MaxViews : ViewStep(v)
-----------------------------------------------------------------------------
\* Safety: when nothing more happens the window's view has been started, with the
\* region that the window has, and all its tiles are done, however many views were
\* stopped before they were started (mandelbrot.cpp:286-292, 384).  That region is
\* the one chosen last, whatever was clicked while the pool worked on the others,
\* unless it was clicked before a NavigateTo had written to m_region, which then
\* overwrites what the click has written, or a part of it (mandelbrot.cpp:356-359).
CurrentViewFinished ==
    (Quiet /\ local[Glut].at = "idle") =>
             LET w == local[GlutWindow]
             IN  /\ local[View(w.view)].m_region = w.m_region
                 /\ local[View(w.view)].m_tilesRemaining = 0
                 /\ ~local[View(w.view)].m_dismissed
                 /\ local[Glut].early \/ w.m_region = local[Glut].chosen
=============================================================================
