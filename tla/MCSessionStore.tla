--------------------------- MODULE MCSessionStore ---------------------------
(* Small instances of SessionStore for TLC.                                  *)
EXTENDS SessionStore, TLC

CONSTANTS chatA, chatB, claude, codex, first, second, other, newA, resetA, modelA

TwoSessions == {chatA, chatB}
TwoProviders == {claude, codex}
ThreeTurns == {first, second, other}
BothResets == {newA, resetA}
OneSwitch == {modelA}
KeyOfAll == (first :> chatA) @@ (second :> chatA) @@ (other :> chatB)
            @@ (newA :> chatA) @@ (resetA :> chatA) @@ (modelA :> chatA)
ChosenOnes == (first :> NoProvider) @@ (second :> codex) @@ (other :> NoProvider)
              @@ (newA :> NoProvider) @@ (resetA :> NoProvider) @@ (modelA :> codex)
OnlyReset == {resetA}
FiveDays == {{first, other, newA, modelA}, {first, second, newA}, {first, second, modelA},
             {first, second, other}, {first, resetA, modelA}}
=============================================================================
