-------------------------- MODULE TrackSignatures --------------------------
(***************************************************************************)
(* Track commands of shared poll channels (OnTrack and                     *)
(* getTrackSignatureVerifiers of internal/client/handler.go): several      *)
(* clients present signed batches of keys while the secrets are rotated by *)
(* reloads.  The verifiers are cached in the handler under a lock and      *)
(* replaced by whoever finds them made for other secrets, so two commands  *)
(* that read different configurations replace each other's.                *)
(***************************************************************************)
EXTENDS ChannelRules

CONSTANTS
    Trackers,       \* concurrent track commands
    SecretConfigs,  \* [hmac, hmacPrevious, hmacValidUntil] of the configurations
    TrackBatches,   \* sequences of signed batches a command may carry
    Now             \* the clock of the signatures

\* A signed batch of keys, and the user, channel and keys the MAC was made for.
SignedBatches ==
    [signedWith : STRING, keys : SUBSET STRING, iat : Nat, expiry : Nat,
     signedFor : [user : STRING, channel : STRING, keys : SUBSET STRING]]

ASSUME TrackAssumption ==
    /\ SecretConfigs \subseteq [hmac : STRING, hmacPrevious : STRING, hmacValidUntil : Nat]
    /\ \A batches \in TrackBatches : batches \in Seq(SignedBatches)
    /\ Now \in Nat

VARIABLES
    secrets,    \* the shared poll part of the current configuration
    verifiers,  \* [key, made, previousKey, previous]: the cached verifiers
    track       \* track[t]: the command in progress or its outcome

tracking == <<secrets, verifiers, track>>

TrackChannel == "ch"
TrackUser == "u"
Polled == [subscriptionType |-> "shared_poll"]
Quiet == [pc |-> "idle", reply |-> Reply("none", "none")]

TrackInit ==
    /\ secrets \in SecretConfigs
    /\ verifiers = [key |-> "", made |-> "", previousKey |-> "", previous |-> ""]
    /\ track = [t \in Trackers |-> Quiet]

RotateSecrets(s) ==
    /\ s # secrets /\ secrets' = s
    /\ UNCHANGED <<verifiers, track>>

Fits(s) == verifiers.key = s.hmac /\ verifiers.previousKey = s.hmacPrevious

\* The configuration is read, then the cached verifiers under the read lock;
\* if they fit they are used, and without a secret none are.
BeginTrack(t, batches) ==
    /\ track[t].pc = "idle"
    /\ track' = [track EXCEPT ![t] =
          [pc |-> IF secrets.hmac = "" \/ Fits(secrets) THEN "verify" ELSE "remake", cfg |-> secrets,
           batches |-> batches, current |-> verifiers.made, previous |-> verifiers.previous]]
    /\ UNCHANGED <<secrets, verifiers>>

RemadeMutant(s) ==
    IF Fits(s) THEN verifiers
    ELSE [key |-> s.hmac, made |-> s.hmac,
          previousKey |-> s.hmacPrevious,
          previous |-> IF s.hmacPrevious # "" THEN s.hmacPrevious ELSE verifiers.previous]

\* The cached verifiers after the second look, under the write lock.
Remade(s) ==
    IF Fits(s) THEN verifiers
    ELSE [key |-> s.hmac, made |-> s.hmac,
          previousKey |-> s.hmacPrevious, previous |-> s.hmacPrevious]

RemakeVerifiers(t) ==
    /\ track[t].pc = "remake"
    /\ verifiers' = Remade(track[t].cfg)
    /\ track' = [track EXCEPT ![t] =
          [pc |-> "verify", cfg |-> track[t].cfg, batches |-> track[t].batches,
           current |-> verifiers'.made, previous |-> verifiers'.previous]]
    /\ UNCHANGED secrets

\* Every batch is verified with the verifiers obtained.
VerifyBatches(t) ==
    /\ track[t].pc = "verify"
    /\ LET r == track[t]
           cfg == [r.cfg EXCEPT !.hmac = r.current, !.hmacPrevious = r.previous]
       IN  track' = [track EXCEPT ![t] =
             [pc |-> "idle", cfg |-> r.cfg, batches |-> r.batches,
              reply |-> IF r.cfg.hmac = "" THEN Reply("error", "internal")
                        ELSE OnTrack(cfg, Polled, TRUE, TrackChannel, TrackUser, r.batches, Now)]]
    /\ UNCHANGED <<secrets, verifiers>>

TrackNext ==
    \/ \E s \in SecretConfigs : RotateSecrets(s)
    \/ \E t \in Trackers :
        \/ \E b \in TrackBatches : BeginTrack(t, b)
        \/ RemakeVerifiers(t) \/ VerifyBatches(t)

TrackSpec == TrackInit /\ [][TrackNext]_tracking

-----------------------------------------------------------------------------
(* Properties                                                              *)

\* A track command is allowed only if every batch is signed, for this user
\* and channel, with a secret that the configuration the command read has
\* configured, and with the previous one only if it was issued in time and
\* none is expired: no interleaving of rotations and of commands that remake
\* the shared verifiers lets a withdrawn secret through.
TrackedWithConfiguredSecret ==
    \A t \in Trackers : (track[t].pc = "idle" /\ track[t].reply.kind = "allow") =>
        LET s == track[t].cfg
        IN  \A i \in DOMAIN track[t].batches :
              LET b == track[t].batches[i]
              IN  /\ b.signedWith \in {s.hmac, s.hmacPrevious} \ {""}
                  /\ b.signedFor = [user |-> TrackUser, channel |-> TrackChannel, keys |-> b.keys]
                  /\ (b.signedWith # s.hmac /\ s.hmacValidUntil > 0) => b.iat <= s.hmacValidUntil
                  /\ b.expiry > 0 => b.expiry + Grace >= Now
=============================================================================
