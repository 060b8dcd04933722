--------------------------- MODULE MCProviderStream ---------------------------
\* The instance of ProviderStream that TLC checks: BOS is 0, the prompts are
\* made of 1 and 2, and the model generates 3 and 4.
EXTENDS ProviderStream

MCSpecials == {0}
MCVocabulary == <<3, 4>>

\* Each reports its usage elsewhere, some of them again and again.
Telling(x, phases) == [x EXCEPT !.reports = phases]

MCProviders ==
    {SmallModel, Telling(Unmapped, {"finished"}), Telling(LmStudio, {"more", "counted"}),
     Telling(Mapped, {"finished"}), ChatOnly, GpuHost}

Plain == [prompt |-> <<1, 2>>, prepend |-> <<>>, sampler |-> "temperature", include |-> FALSE,
          respectEos |-> TRUE, want |-> 1, top |-> 1, echoLast |-> None, extras |-> {},
          penalties |-> {}]

MCAsks ==
    {[Plain EXCEPT !.prepend = <<0>>, !.top = 25, !.extras = {"service_tier", "logit_bias"}],
     [Plain EXCEPT !.include = TRUE, !.want = 2, !.respectEos = FALSE, !.top = 0],
     [Plain EXCEPT !.include = TRUE, !.prepend = <<0>>, !.prompt = <<1>>],
     [Plain EXCEPT !.include = TRUE, !.echoLast = 1, !.penalties = {"repetition_penalty"}],
     [Plain EXCEPT !.include = TRUE, !.sampler = "typical", !.want = 2],
     [Plain EXCEPT !.prompt = <<>>, !.sampler = "mirostat", !.prepend = <<0>>,
                   !.respectEos = FALSE]}
=============================================================================
