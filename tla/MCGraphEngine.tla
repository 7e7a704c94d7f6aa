---------------------------- MODULE MCGraphEngine ----------------------------
EXTENDS GraphEngine

CONSTANTS pa, pb, pc, work, ask, duty, other, back

MCPanes == {pa, pb, pc}
MCLinkSeq == <<work, ask, duty, other, back>>

Link(kind, on, from, to, reads) ==
  [kind |-> kind, on |-> on, whenBusy |-> "wait", from |-> from, to |-> to, reads |-> reads,
   limit |-> 1]

\* Agent pb goes on with what pa completes, answers for it, and is told that it is
\* over pa and pc; pa goes on with what pb completes.
MCDef ==
  [l \in {work, ask, duty, other, back} |->
     CASE l = work  -> Link("trigger", "done", pa, pb, TRUE)
       [] l = ask   -> Link("approval", "blocked", pa, pb, TRUE)
       [] l = duty  -> Link("supervise", "blocked", pa, pb, FALSE)
       [] l = other -> Link("supervise", "blocked", pc, pb, FALSE)
       [] l = back  -> [Link("trigger", "done", pb, pa, FALSE) EXCEPT !.whenBusy = "skip"]]

Once == [p \in MCPanes |-> 1]
Twice == [Once EXCEPT ![pa] = 2]

Quiet == [links |-> {}, moving |-> {pa, pb}, leaving |-> {}, may |-> {}, calls |-> {},
          seq |-> Twice]

MCScenarios ==
  { [Quiet EXCEPT !.links = {work, ask}, !.seq = Once],
    [Quiet EXCEPT !.links = {work}, !.calls = {<<"add", duty>>}],
    [Quiet EXCEPT !.links = {ask, duty}, !.moving = {pa}],
    [Quiet EXCEPT !.links = {ask}, !.moving = {pa}, !.leaving = {pa},
                  !.calls = {<<"pause", ask>>}],
    [Quiet EXCEPT !.links = {work}, !.moving = {pa}, !.seq = Once, !.calls = {<<"add", ask>>}],
    [Quiet EXCEPT !.links = {work}, !.may = {"stop", "fail"},
                  !.calls = {<<"resume", work>>}],
    [Quiet EXCEPT !.links = {work, back}, !.may = {"remote"}, !.calls = {<<"remove", work>>}],
    [Quiet EXCEPT !.links = {work, ask}, !.moving = {pa}, !.seq = Once, !.may = {"remote"}],
    [Quiet EXCEPT !.links = {duty}, !.moving = {pb}, !.leaving = {pb}, !.may = {"remote"},
                  !.calls = {<<"pause all", duty>>, <<"resume all", duty>>, <<"add", other>>}] }

MCDoubling == {[Quiet EXCEPT !.links = {work, ask}]}
=============================================================================
