------------------------------- MODULE MCBoot -------------------------------
(* init, sys_task, setup, the four drivers and a test bench, with the calls  *)
(* their kmod_main makes and those the callees make for them.                 *)
EXTENDS Boot

CONSTANTS i, s, u, v1, v2, v3, v4, m1, m2, m3, k1, k2, t1, t2, t3, e, b1, b2, empty,
          TInit, TSys, TSetup, TVideo, TIoman, TKeyboard, TTty, TTb2

MCTasks     == {TInit, TSys, TSetup, TVideo, TIoman, TKeyboard, TTty, TTb2}
MCThreads   == {i, s, u, v1, v2, v3, v4, m1, m2, m3, k1, k2, t1, t2, t3, e, b1, b2}
MCTaskOf    == [t \in MCThreads |-> CASE t = i -> TInit
                                      [] t = s -> TSys
                                      [] t = u -> TSetup
                                      [] t \in {v1, v2, v3, v4} -> TVideo
                                      [] t \in {m1, m2, m3} -> TIoman
                                      [] t \in {k1, k2} -> TKeyboard
                                      [] t \in {t1, t2, t3, e} -> TTty
                                      [] t \in {b1, b2} -> TTb2]
MCLevel     == [k \in MCTasks |-> IF k = TTb2 THEN 1 ELSE 0]
MCPriority  == [k \in MCTasks |-> 1]
MCMain      == [k \in MCTasks |-> CHOOSE t \in {i, s, u, v1, m1, k1, t1, b1} : MCTaskOf[t] = k]
MCMailOwner == [k \in MCTasks |-> CHOOSE t \in {i, s, u, v2, m2, k2, t2, b2} : MCTaskOf[t] = k]
MCWorkers   == [k \in MCTasks |-> {t \in {v3, v4, m3, t3} : MCTaskOf[t] = k}]
MCHelpers   == [k \in MCTasks |-> IF k = TTty THEN {e} ELSE {}]
MCAllowPids == [k \in MCTasks |-> {}]
MCParams    == {[max |-> m, value |-> 0, soft |-> FALSE] : m \in 1 .. 2}

\* Functions: memory to share, a frame buffer, its display, text, the key buffer.
ShareMemory == 10
FrameBuffer == 11
SwapBuffer  == 12
PutString   == 13
KeyBuffer   == 14

MCFunctions == 10 .. 14
MCResultOf  == [f \in MCFunctions |-> f + 10]

Share       == [to |-> TSys, fn |-> ShareMemory]
MCBodyCalls == [f \in MCFunctions |-> CASE f = FrameBuffer -> <<Share, Share>>
                                        [] f = PutString   -> <<[to |-> TVideo, fn |-> SwapBuffer]>>
                                        [] f = KeyBuffer   -> <<Share>>
                                        [] OTHER           -> <<>>]

CallsOf(k, consoles) ==
    CASE k = TIoman    -> <<Share>>
      [] k = TKeyboard -> <<Share, [to |-> TIoman, fn |-> KeyBuffer]>>
      [] k = TTty      -> [c \in 1 .. consoles |-> [to |-> TVideo, fn |-> FrameBuffer]]
      [] k = TTb2      -> <<Share, [to |-> TTty, fn |-> PutString]>>
      [] OTHER         -> <<>>

\* The drivers; and the ones that a test bench needs, with it, and two of the consoles.
MCSystems   == {[order |-> <<TSys, TSetup, TVideo, TIoman, TKeyboard, TTty>>,
                 calls |-> [k \in MCTasks |-> CallsOf(k, 4)]],
                [order |-> <<TSys, TSetup, TVideo, TTty, TTb2>>,
                 calls |-> [k \in MCTasks |-> CallsOf(k, 2)]]}
MCLengths   == {1, 4, 5, 6, 7} \cup MCFunctions \cup {MCResultOf[f] : f \in MCFunctions}
=============================================================================
