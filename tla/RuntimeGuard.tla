---------------------------- MODULE RuntimeGuard ----------------------------
(***************************************************************************)
(* runtimeGuardPacket (src/engine/src/domain/runtime-guard.ts): what the   *)
(* guard finds in a prompt, and the disposition that follows.  A prompt is *)
(* the set of the signals its regular expressions match.                   *)
(***************************************************************************)
EXTENDS FiniteSets

Signals == {"injection", "untrusted", "external-word", "separation", "destructive",
            "privileged", "approval", "certificate", "secret", "outbound-word",
            "secret-exfiltration", "source"}

Finding(kind, severity) == [kind |-> kind, severity |-> severity]

Privileged(signals) == signals \cap {"privileged", "destructive", "secret-exfiltration"} # {}

findings(signals) ==
    LET has(signal) == signal \in signals
        when(condition, kind, severity) ==
            IF condition THEN {Finding(kind, severity)} ELSE {}
        controlled == has("untrusted") /\ Privileged(signals) /\ ~has("separation")
    IN  UNION {
          when(has("injection"), "prompt-injection", "critical"),
          when(has("secret-exfiltration"), "secret-exfiltration", "critical"),
          when(~has("secret-exfiltration") /\ has("secret") /\ has("outbound-word"),
               "secret-exfiltration", "major"),
          when(controlled, "untrusted-input-controls-action", "critical"),
          when(has("untrusted") /\ ~controlled, "untrusted-input",
               IF has("source") /\ has("separation") THEN "minor" ELSE "major"),
          when(has("destructive"), "destructive-action",
               IF has("approval") THEN "major" ELSE "critical"),
          when(has("destructive") /\ ~has("approval"), "approval-missing", "critical"),
          when(Privileged(signals) /\ ~has("certificate"),
               "privileged-action-without-certificate",
               IF has("destructive") THEN "critical" ELSE "major"),
          when((has("untrusted") \/ has("external-word")) /\ ~has("source"),
               "source-provenance", "major")}

disposition(found) ==
    IF \E x \in found : x.severity = "critical" THEN "block"
    ELSE IF \E x \in found : x.severity = "major" THEN "review"
    ELSE "allow"
=============================================================================
