------------------------------ MODULE MCMemory ------------------------------
(* An instance of Memory for TLC: memory maps of a few regions over a  *)
(* window of nine frames, well formed and malformed.                        *)
EXTENDS Memory

Region(base, pages) == [usable |-> TRUE, aligned |-> TRUE, base |-> base, pages |-> pages]
Reserved(base, pages) == [Region(base, pages) EXCEPT !.usable = FALSE]
Unaligned(base, pages) == [Region(base, pages) EXCEPT !.aligned = FALSE]

SmallMaps ==
  { <<Region(0, 9)>>,                                  \* one range
    <<Region(4, 5), Reserved(3, 1), Region(1, 2)>>,    \* out of order, with a hole
    <<Region(1, 4), Region(5, 3)>>,                    \* adjacent
    <<Region(2, 20), Unaligned(0, 2)>>,                \* past the window; not a frame
    <<Region(3, 5), Region(1, 30)>>,                   \* overflows and is ignored
    <<Region(0, 1), Region(2, 4), Region(7, 2)>>,      \* the first is too small for the array
    <<Region(2, 4), Region(5, 3)>>,                    \* overlap by one frame
    <<Region(2, 3), Region(2, 3)>>,                    \* the same twice
    <<Region(0, 2), Region(3, 2), Region(6, 1), Region(7, 2)>>,   \* too many
    <<Region(0, 3), Reserved(3, 1), Region(4, 2), Reserved(6, 1), Region(7, 2)>>,   \* cut off
    <<Region(0, 1), Region(8, 1)>>,                    \* nowhere to put the array
    <<Reserved(0, 4)>>, <<Region(12, 3)>>, <<>> }
=============================================================================
