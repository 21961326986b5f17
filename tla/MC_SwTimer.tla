----------------------------- MODULE MC_SwTimer -----------------------------
(* The timers of cube.c on a coarse scale of time, for TLC.                *)
EXTENDS SwTimer, TLC

CONSTANTS clearPushLatch, onNextLayer, triggerRender, button, nextRender

\* The latch and layer timers start each other; the periodic timer triggers the
\* rendering; the button's debounce timer and the presentation timer start the
\* presentation timer.
CubeCallback == {clearPushLatch, onNextLayer, triggerRender, button, nextRender}
CubeInterval == (clearPushLatch :> 1) @@ (onNextLayer :> 2) @@ (triggerRender :> 4)
                  @@ (button :> 3) @@ (nextRender :> 5)
CubeOneShot  == [cb \in CubeCallback |-> cb # triggerRender]
CubeStarts   == (clearPushLatch :> onNextLayer) @@ (onNextLayer :> clearPushLatch)
                  @@ (triggerRender :> NoCallback) @@ (button :> nextRender)
                  @@ (nextRender :> nextRender)

\* Three timers: the presentation timer restarts itself and is started by the
\* button's.  The periodic interval is more than the ticks that are subtracted from
\* it twice, so that its counter does not fall for ever.
SmallCallback == {nextRender, triggerRender, button}
SmallInterval == (nextRender :> 2) @@ (triggerRender :> 4) @@ (button :> 3)
SmallOneShot  == [cb \in SmallCallback |-> cb # triggerRender]
SmallStarts   == (nextRender :> nextRender) @@ (triggerRender :> NoCallback)
                   @@ (button :> nextRender)
=============================================================================
