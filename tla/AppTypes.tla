-------------------------------- MODULE AppTypes --------------------------------
(* Which application a name belongs to: sniToAppType of src/types.cpp for    *)
(* the offline engine and classifyDomain of src/live_capture.cpp for the     *)
(* live monitor.  Both look for parts of the name, row by row, and the first *)
(* row with a part that occurs in it decides.  Names are in lower case, to   *)
(* which sniToAppType takes them first.                                      *)
EXTENDS Naturals, Sequences

LOCAL Row(app, parts) == [app |-> app, parts |-> parts]

Occurs(part, name) ==
    \E i \in 1..Len(name) - Len(part) + 1 : SubSeq(name, i, i + Len(part) - 1) = part

Decides(row, name) == \E part \in row.parts : Occurs(part, name)

FirstRow(rows, name, otherwise) ==
    IF \E i \in DOMAIN rows : Decides(rows[i], name)
    THEN rows[CHOOSE i \in DOMAIN rows :
                  /\ Decides(rows[i], name)
                  /\ \A j \in 1..i - 1 : ~Decides(rows[j], name)].app
    ELSE otherwise

SniRows ==
    <<Row("GOOGLE", {"google", "gstatic", "googleapis", "ggpht", "gvt1"}),
      Row("YOUTUBE", {"youtube", "ytimg", "youtu.be", "yt3.ggpht"}),
      Row("FACEBOOK", {"facebook", "fbcdn", "fb.com", "fbsbx", "meta.com"}),
      Row("INSTAGRAM", {"instagram", "cdninstagram"}),
      Row("WHATSAPP", {"whatsapp", "wa.me"}),
      Row("TWITTER", {"twitter", "twimg", "x.com", "t.co"}),
      Row("NETFLIX", {"netflix", "nflxvideo", "nflximg"}),
      Row("AMAZON", {"amazon", "amazonaws", "cloudfront", "aws"}),
      Row("MICROSOFT", {"microsoft", "msn.com", "office", "azure", "live.com",
                        "outlook", "bing"}),
      Row("APPLE", {"apple", "icloud", "mzstatic", "itunes"}),
      Row("TELEGRAM", {"telegram", "t.me"}),
      Row("TIKTOK", {"tiktok", "tiktokcdn", "musical.ly", "bytedance"}),
      Row("SPOTIFY", {"spotify", "scdn.co"}),
      Row("ZOOM", {"zoom"}),
      Row("DISCORD", {"discord", "discordapp"}),
      Row("GITHUB", {"github", "githubusercontent"}),
      Row("CLOUDFLARE", {"cloudflare", "cf-"})>>

SniToAppType(sni) == IF sni = "" THEN "UNKNOWN" ELSE FirstRow(SniRows, sni, "HTTPS")

DomainRows ==
    <<Row("YouTube", {"youtube"}), Row("GitHub", {"github"}), Row("OpenAI", {"openai"}),
      Row("VS Code", {"visualstudio"}), Row("Microsoft", {"microsoft"}),
      Row("Telegram", {"telegram"}), Row("Discord", {"discord"}),
      Row("Facebook", {"facebook"}), Row("Instagram", {"instagram"}), Row("Google", {"google"})>>

ClassifyDomain(domain) == FirstRow(DomainRows, domain, "Unknown")
=============================================================================
