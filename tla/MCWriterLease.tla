--------------------------- MODULE MCWriterLease ---------------------------
(* Two sites with a database file each: a and a2 share a site and a file (a  *)
(* deployment that overlaps the process it replaces), b is the standby's.    *)
EXTENDS WriterLease, TLC
CONSTANTS a, a2, b, siteA, siteB, fileA, fileB

MCSiteOf == [p \in Process |-> IF p = b THEN siteB ELSE siteA]
MCOwnFile == [s \in Site |-> IF s = siteA THEN fileA ELSE fileB]
MCSymmetry == Permutations(Thread) \cup Permutations({a, a2})
============================================================================
