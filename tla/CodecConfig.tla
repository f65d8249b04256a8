----------------------------- MODULE CodecConfig -----------------------------
(***************************************************************************)
(* comm_audio_cfg_acodec: the set-up of an audio codec through a sequence of *)
(* ioctl calls, each of which may fail.  A call is a register and the value   *)
(* it gets; NotSupported stands for a parameter that the code refuses.  The   *)
(* client may configure the codec again, with other parameters, at any time.  *)
(***************************************************************************)
EXTENDS Integers, Sequences

CONSTANTS Codecs,       \* what the build may define: "es8388", "inner" or "none"
          WorkModes, Rates, Widths

VARIABLES codec,        \* the codec of this build
          request,      \* aio_attr of the call
          calls,        \* ioctl calls still to be made
          register,     \* what the codec holds
          file,         \* the device file is open
          result        \* "running", "success", "failure"

vars == <<codec, request, calls, register, file, result>>

Requests == [mode : WorkModes, rate : Rates, width : Widths]

Set(r, v) == <<[register |-> r, value |-> v]>>

\* The same value for both sides.
Both(left, right, v) == Set(left, v) \o Set(right, v)

NotSupported == Set("refused", "refused")

SocIsSlave(mode) == mode \in {"i2s_slave", "pcm_slave_std", "pcm_slave_non_std"}

\* MCLK / LRCLK
get_clk_ratio(rate) == CASE rate \in {8, 12} -> 1024 [] rate \in {16, 24} -> 512
                         [] rate \in {32, 48} -> 256 [] OTHER -> 0

soft_reset == Set("reset", 1)

set_input_ctrl == Both("left_input", "right_input", "input2") \o Both("left_in_power", "right_in_power", "up")
                  \o Both("left_adc_power", "right_adc_power", "up")

\* The codec drives the clock when the SoC does not.
set_clk_mode(mode, rate) ==
    IF ~ SocIsSlave(mode) THEN Set("clock", "slave")
    ELSE IF get_clk_ratio(rate) = 0 THEN NotSupported
    ELSE Set("bclk_ratio", 4) \o Both("adc_ratio", "dac_ratio", get_clk_ratio(rate))
         \o Set("clock", "master")

set_clk_polarity(mode) ==
    Both("adc_polarity", "dac_polarity",
         CASE mode \in {"pcm_master_std", "pcm_slave_std"} -> "offset_2nd"
           [] mode \in {"pcm_master_non_std", "pcm_slave_non_std"} -> "offset_1st"
           [] OTHER -> "normal")
    \o Set("bclk_dir", IF mode \in {"i2s_master", "i2s_slave"} THEN "normal" ELSE "invert")

set_data_ctrl(mode, width) ==
    Both("adc_format", "dac_format", IF mode \in {"i2s_master", "i2s_slave"} THEN "i2s" ELSE "pcm")
    \o IF width \in {16, 24} THEN Both("adc_width", "dac_width", width) ELSE NotSupported

set_output_ctrl == Both("left_dac_power", "right_dac_power", "up")
                   \o Both("left_out1", "right_out1", "on") \o Both("left_out2", "right_out2", "on")

set_input_volume == Both("left_gain", "right_gain", "0dB")
                    \o Both("left_adc_volume", "right_adc_volume", "0dB") \o Set("adc_mute", "off")

set_output_volume == Both("left_out1_volume", "right_out1_volume", "0dB")
                     \o Both("left_out2_volume", "right_out2_volume", "0dB")
                     \o Both("left_dac_volume", "right_dac_volume", "0dB") \o Set("dac_mute", "off")

es8388_cfg_audio(q) == soft_reset \o set_input_ctrl \o set_clk_mode(q.mode, q.rate)
                       \o set_clk_polarity(q.mode) \o set_data_ctrl(q.mode, q.width)
                       \o set_output_ctrl \o set_input_volume \o set_output_volume

\* The I2S rate of the inner codec is the sample rate, if it is one of these.
get_i2s_fs(rate) == IF rate \in {8, 11, 12, 16, 22, 24, 32, 44, 48, 64, 96}
                    THEN Set("i2s_fs", rate) ELSE NotSupported

inner_codec_cfg_audio(q) == soft_reset \o get_i2s_fs(q.rate) \o Set("mixer", "in_d")

-----------------------------------------------------------------------------
Init == /\ codec \in Codecs
        /\ request \in Requests
        /\ calls = <<>> /\ register = <<>> /\ file = FALSE /\ result = "failure"

\* cfg_acodec: without a codec, or when its file cannot be opened, it fails at once.
Configure == /\ result # "running"
             /\ request' \in Requests
             /\ \/ /\ codec # "none"
                   /\ calls' = IF codec = "es8388" THEN es8388_cfg_audio(request')
                               ELSE inner_codec_cfg_audio(request')
                   /\ file' = TRUE /\ result' = "running"
                \/ result' = "failure" /\ UNCHANGED <<calls, file>>
             /\ UNCHANGED <<codec, register>>

\* es8388_disable
Disable == /\ result # "running" /\ codec = "es8388"
           /\ calls' = soft_reset /\ file' = TRUE /\ result' = "running"
           /\ UNCHANGED <<codec, request, register>>

\* An ioctl call; a reset sets all registers back to what the codec starts with.
Call == /\ result = "running" /\ calls # <<>> /\ Head(calls).register # "refused"
        /\ register' = LET c == Head(calls) IN
                       IF c.register = "reset" THEN <<>>
                       ELSE [r \in DOMAIN register \union {c.register} |->
                               IF r = c.register THEN c.value ELSE register[r]]
        /\ calls' = Tail(calls)
        /\ UNCHANGED <<codec, request, file, result>>

Return(value) == /\ file' = FALSE /\ calls' = <<>> /\ result' = value
                 /\ UNCHANGED <<codec, request, register>>

CallFails == result = "running" /\ calls # <<>> /\ Return("failure")

Finish == result = "running" /\ calls = <<>> /\ Return("success")

Next == Configure \/ Disable \/ Call \/ CallFails \/ Finish

Spec == Init /\ [][Next]_vars

-----------------------------------------------------------------------------
Holds(r, v) == r \in DOMAIN register /\ register[r] = v

TypeOK == /\ codec \in Codecs /\ request \in Requests /\ file \in BOOLEAN
          /\ result \in {"running", "success", "failure"}
          /\ file <=> result = "running"

Pairs == {<<"adc_polarity", "dac_polarity">>, <<"adc_format", "dac_format">>, <<"adc_width", "dac_width">>,
          <<"left_dac_power", "right_dac_power">>, <<"left_dac_volume", "right_dac_volume">>}

\* The output of the ES8388 is open only when both converters are set, and set
\* alike: also when a set-up fails half way after an earlier one that succeeded.
\* After a success either the SoC or the codec drives the clock, and a codec that
\* does makes one of the two master clocks out of the sample rate.
AudibleIsConfigured ==
    Holds("dac_mute", "off") =>
        /\ \A p \in Pairs : p[1] \in DOMAIN register /\ Holds(p[2], register[p[1]])
        /\ result = "success" =>
             /\ Holds("clock", IF SocIsSlave(request.mode) THEN "master" ELSE "slave")
             /\ Holds("dac_width", request.width)
             /\ register["clock"] = "master" => request.rate * register["dac_ratio"] \in {8192, 12288}
=============================================================================
