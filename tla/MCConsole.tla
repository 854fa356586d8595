----------------------------- MODULE MCConsole -----------------------------
EXTENDS Console

Abort == [kind |-> "abort"]
Exchange(line, ender) == [kind |-> "exchange", line |-> line, ender |-> ender, flashOnly |-> FALSE]
Empty == Exchange(<<>>, "prompt")
InitCart == Exchange(<<"i", "n", "i", "t">>, "prompt")
InitFlash == [InitCart EXCEPT !.flashOnly = TRUE]
Erase == Exchange(<<"c", "e">>, "prompt")
Dump == Exchange(<<"d", "x">>, "CTRL+C to cancel.")

\* The part of the handlers' table the scripts and what may be left in the
\* buffer can reach.
MCCommands == <<<<"i", "n", "i", "t">>, <<"d", "x">>, <<"u", "x">>, <<"c", "e">>>>

\* carttool.py -p, carttool.py -r, and smsp.py's "program" and "read".
CartProgram == <<Abort, Empty, Empty, InitCart, Erase, Exchange(<<"u", "x">>, "READY")>>
CartRead == <<Abort, Empty, Empty, InitCart, Dump>>
GuiProgram == <<Abort, Empty, Empty, Empty, Empty, InitFlash, Erase, Exchange(<<"u", "x">>, "NAK")>>
GuiRead == <<Abort, Empty, Empty, Empty, Empty, InitCart, Dump>>
MCScripts == {CartProgram, CartRead, GuiProgram, GuiRead}

AnyButEot == {"cmd", "dxstart", "dxack", "uxwait", "uxrx"}
UploadOnly == {"uxwait"}

\* Nothing, the start of a command, a line's last room.
MCJunk == {<<>>, <<"c">>, <<"x", "d", "x", "x">>}
=============================================================================
