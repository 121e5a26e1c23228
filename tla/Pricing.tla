------------------------------- MODULE Pricing -------------------------------
(***************************************************************************)
(* common/pricing.py: what one line of a transcript cost.  A cost is a      *)
(* whole number of twentieths of a millionth of a dollar, the unit in which *)
(* the multiples of a rate for cache tokens are whole; the code computes    *)
(* with floats.                                                             *)
(***************************************************************************)
EXTENDS Integers

Rate(input, output) == [input |-> input, output |-> output]

(* Dollars for a million tokens, of the models the table names. *)
MODEL_RATES ==
  LET fable == Rate(10, 50)  opus == Rate(5, 25)
      sonnet == Rate(3, 15)  haiku == Rate(1, 5)
  IN [ claude_fable_5    |-> fable,  claude_mythos_5   |-> fable,
       claude_opus_4_8   |-> opus,   claude_opus_4_7   |-> opus,
       claude_opus_4_6   |-> opus,   claude_opus_4_5   |-> opus,
       claude_opus_4_1   |-> opus,   claude_opus_4_0   |-> opus,
       claude_sonnet_5   |-> sonnet, claude_sonnet_4_6 |-> sonnet,
       claude_sonnet_4_5 |-> sonnet, claude_sonnet_4_0 |-> sonnet,
       claude_haiku_4_5  |-> haiku ]

(* A model the table does not know. *)
DEFAULT_RATE == Rate(3, 15)

RateOf(model) ==
  IF model \in DOMAIN MODEL_RATES THEN MODEL_RATES[model] ELSE DEFAULT_RATE

(* A token count a line lacks is zero. *)
Usage == [model : STRING, input : Nat, output : Nat, write : Nat, read : Nat]

(* cost_for_usage: tokens written to the cache cost 5/4 of the input rate,  *)
(* tokens read from it 1/10.                                                *)
CostForUsage(u) ==
  LET rate == RateOf(u.model)
  IN   20 * u.input * rate.input + 20 * u.output * rate.output
     + 25 * u.write * rate.input +  2 * u.read * rate.input

TokensOf(u) == u.input + u.output + u.write + u.read
=============================================================================
