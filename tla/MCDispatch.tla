----------------------------- MODULE MCDispatch -----------------------------
\* Instances of Dispatch small enough for TLC.
EXTENDS Dispatch, TLC

CONSTANTS copilot, azure, kimi, typesafe, vm, gpt, solo, qualified, native, amb, alias

\* vm spreads over three upstreams, one of them a System One instance.  The
\* prefix of `qualified' names kimi; so does that of `native', which kimi itself
\* advertises in full.  The prefix of `amb' is ambiguous, but kimi advertises it.
\* kimi alone serves `solo'; `alias' is normalized to `gpt'.
MCUpstreams == <<[model |-> gpt, provider |-> kimi],
                 [model |-> gpt, provider |-> typesafe],
                 [model |-> gpt, provider |-> None]>>

MCNoUpstreams == <<>>

MCQualified ==
  [k \in Keys |-> IF k \in {qualified, native} THEN [model |-> gpt, provider |-> kimi] ELSE None]

MCCanonical == [k \in Keys |-> IF k = alias THEN gpt ELSE k]

MCCatalog ==
  [i \in Instances |-> IF i = kimi THEN Keys \cap {gpt, solo, native, amb}
                       ELSE IF i = typesafe THEN {} ELSE {gpt}]

MCRank ==
  [i \in Instances |-> CASE i = copilot -> 1 [] i = azure -> 2 [] i = kimi -> 3
                         [] OTHER -> 4]

\* Requests are interchangeable where no liveness is checked.
AnyRequest == Permutations(Requests)
=============================================================================
