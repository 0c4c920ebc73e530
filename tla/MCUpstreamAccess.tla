-------------------------- MODULE MCUpstreamAccess --------------------------
EXTENDS UpstreamAccess, TLC

\* Token and handshake of a call share only the clock, so reads exercise the
\* one (with rotations of its key) and submissions the other, with a clock that
\* is right and with one that is ahead by more than the window.
MCLoads ==
    { [clients |-> {"dashboard", "stress"}, op |-> "read", rotates |-> "jwt", offset |-> 0],
      [clients |-> {"stress"}, op |-> "submit", rotates |-> "bank", offset |-> 0],
      [clients |-> {"stress"}, op |-> "submit", rotates |-> "bank", offset |-> 3] }

\* Call slots and nonces are interchangeable.
AccessSymmetry == Permutations(Calls) \cup Permutations(Nonces)

=============================================================================
