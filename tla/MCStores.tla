------------------------------ MODULE MCStores ------------------------------
(* The two stores of the panel that outlive the process, the play statistics  *)
(* and the themes, for TLC: a behaviour is about one of them. The themes are  *)
(* two, one of three versions and one of one, all of the same size.           *)
EXTENDS MCUpstreamActivity, ThemeStore, TLC

CONSTANTS t1, t2, x1, x2, x3, y1, u1

TheOwner == (x1 :> t1) @@ (x2 :> t1) @@ (x3 :> t1) @@ (y1 :> t2)
OneByteEach == [v \in {x1, x2, x3, y1} |-> 1]

StoresInit == /\ ThemeInit
              /\ \/ MCInit
                 \/ Init /\ account = a1 /\ focus = "themes"
StoresNext == \/ focus = "themes" /\ ThemeNext /\ UNCHANGED <<vars, focus>>
              \/ focus # "themes" /\ MCNext /\ UNCHANGED themeVars
StoresSpec == StoresInit /\ [][StoresNext]_<<vars, focus, themeVars>>
===============================================================================
