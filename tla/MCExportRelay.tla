--------------------------- MODULE MCExportRelay ----------------------------
(* ExportRelay for TLC.  In the first stream a receipt with or without        *)
(* numbers, its routing outcome, and an edit with numbers; in the second a    *)
(* fill, and an event that the inbox cannot take.                             *)
EXTENDS ExportRelay

CONSTANTS numbered, bare, outcome, revision, fill, foreign
MCStreamOf == [e \in Event |-> IF e \in {fill, foreign} THEN 2 ELSE 1]
MCKind == [e \in Event |-> CASE e \in {numbered, fill} -> "booked" [] e = bare -> "bare"
                             [] e = outcome -> "outcome" [] e = revision -> "revision" [] e = foreign -> "foreign"]
MCAbout == [e \in Event |-> IF e \in {fill, foreign} THEN e
                            ELSE CHOOSE f \in Event : f \in {numbered, bare}]
=============================================================================
