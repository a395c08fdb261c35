---------------------------- MODULE MCInputBuffer ----------------------------
(* Two observers and a stream that outgrows the buffer twice. *)
EXTENDS InputBuffer

CONSTANTS o1, o2, cr, lf, x, y

MCObservers == {o1, o2}
MCStreams == {<<x, cr, lf, y, x, cr>>, <<cr, cr, cr, lf, x, cr>>, <<x, y, x, cr, lf, lf>>}
MCPatterns == {<<cr, lf>>, <<cr, cr, lf>>, <<x>>}

(* A line end behind a CR of its own, and a line end to look for. *)
MCCrCrlf == {<<cr, cr, lf>>}
MCCrlf == {<<cr, lf>>}
=============================================================================
