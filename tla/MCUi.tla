-------------------------------- MODULE MCUi --------------------------------
(* Four scopes, the native process dying once in each: two updates at a    *)
(* time; and with one at a time the finger on the way to the about screen, *)
(* to the reset button and to the DHCP client button.                      *)
EXTENDS Ui

CONSTANTS u1, u2

MainPages == {"home_screen", "no_network_screen"}
MCScopes ==
  { Scope({"home_screen"}, {u1, u2}, 1),
    Scope(MainPages \cup {"menu_btn_about", "about_screen.back"}, {u1}, 1),
    Scope(MainPages \cup {"menu_screen.back", "menu_btn_advanced",
           "menu_btn_advanced_reset_config", "obj0"}, {u1}, 1),
    Scope(MainPages \cup {"menu_btn_advanced", "menu_btn_dhcp_client", "obj2"}, {u1}, 1) }
=============================================================================
