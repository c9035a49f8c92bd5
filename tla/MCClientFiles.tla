---- MODULE MCClientFiles ----
(* Directories with: one plate; a plate with padding and a box file that is  *)
(* sorted last; a plate that is exactly full and a box file between the      *)
(* others; a file longer than a plate; a file of equal segments.             *)
EXTENDS ClientFiles, TLC

SmallDirs ==
    {<<d, FALSE>> : d \in {<<1, Box>>, <<1, 1, 1, Box>>, <<1, Box, 0, 2>>,
                           <<Box, 5, 1>>, <<Box, 2, 2, 8>>}}
        \cup {<<<<1, 1, 1, Box>>, TRUE>>}

Symmetry == Permutations(Calls) \cup Permutations(Fragments)
====
