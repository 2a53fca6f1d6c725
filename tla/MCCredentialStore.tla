------------------------- MODULE MCCredentialStore --------------------------
(* An instance of CredentialStore for TLC. *)
EXTENDS CredentialStore

CONSTANTS c1, c2, v1, v2

\* A row with a plaintext secret whose extra parameters are already encrypted under
\* the configured key, and a connection that is not there yet.
MCLegacy ==
    (c1 :> [secret |-> Plain(v1), extra |-> [val |-> v1, wraps |-> <<ConfiguredKey>>]])
        @@ (c2 :> None)

=============================================================================
