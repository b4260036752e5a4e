----------------------------- MODULE TimeoutConn -----------------------------
(* internal/transport/timeoutconn.go.  Times are what is left until a        *)
(* deadline; a deadline that may be missing is a set of at most one time.    *)
EXTENDS Integers

\* The deadline of a Read or Write that begins now: the per-operation timeout, or the
\* hard deadline when that comes first.  It is not changed while the operation is pending.
effectiveDeadline(timeout, hard) ==
  IF \E t \in hard : t < timeout THEN CHOOSE t \in hard : TRUE ELSE timeout

\* One unit of time passes.
Later(deadline) == {t - 1 : t \in deadline}

IsOver(deadline) == \E t \in deadline : t <= 0
=============================================================================
