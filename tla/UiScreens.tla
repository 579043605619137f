------------------------------ MODULE UiScreens ------------------------------
(***************************************************************************)
(* The screens of the device's own display, as create_screens builds them  *)
(* with LVGL (internal/native/eez/src/ui/screens.c), and the styles they    *)
(* use (styles.c).                                                         *)
(*                                                                         *)
(* A widget is its place in the tree, its class, the style it was given,   *)
(* its callbacks and whether it starts hidden.  Geometry, colours, wording *)
(* and scrolling are left out.  A widget the code keeps no pointer to is   *)
(* named after its screen.                                                 *)
(***************************************************************************)
EXTENDS Naturals, Sequences

Widget(o, up, class, style, on) ==
  [id |-> o, up |-> up, class |-> class, style |-> style, on |-> on, hidden |-> FALSE]

Top == "none"
NoStyle == "none"

Screen(o, style, on) == Widget(o, Top, "obj", style, on)
Obj(o, up)    == Widget(o, up, "obj", NoStyle, {})
\* A container whose LV_OBJ_FLAG_CLICKABLE is cleared.
Panel(o, up)  == Widget(o, up, "panel", NoStyle, {})
Label(o, up, style) == Widget(o, up, "label", style, {})
Image(o, up)  == Widget(o, up, "image", NoStyle, {})
Spinner(o, up) == Widget(o, up, "spinner", NoStyle, {})
Button(o, up, style, on) == Widget(o, up, "button", style, on)
Hidden(w) == [w EXCEPT !.hidden = TRUE]

----------------------------------------------------------------------------
(* Styles.                                                                 *)

StyleNames ==
  << "flex_column_space_between", "flex_center", "flex_start",
     "flow_row_space_between", "flow_row_start_center", "flex_column_start",
     "flex_screen", "flex_screen_menu", "label_font16", "label_font_bold30",
     "header_link", "menu_button", "menu_button_label", "info_headline_label",
     "info_content_label", "back_button" >>

\* A style: the style whose init function its own one calls first, and the
\* groups of properties it sets.
Style(name, base, sets) == [name |-> name, base |-> base, sets |-> sets]

ColumnStyles ==
  { Style("flex_column_space_between", NoStyle, {"flex", "text_align"}),
    Style("flex_center", NoStyle, {"layout", "flex"}),
    Style("flex_start", "flex_center", {"layout", "flex"}) }

RowStyles ==
  { Style("flow_row_space_between", "flex_center", {"layout", "flex"}),
    Style("flow_row_start_center", "flow_row_space_between", {"layout", "flex"}),
    Style("flex_column_start", "flow_row_space_between", {"layout", "flex"}) }

ScreenStyles ==
  { Style("flex_screen", NoStyle, {"pad", "layout", "flex", "bg_color"}),
    Style("flex_screen_menu", "flex_screen", {}) }

TextStyles ==
  { Style("label_font16", NoStyle, {"text_align", "text_font", "text_color"}),
    Style("label_font_bold30", "label_font16", {"text_font"}),
    Style("header_link", "label_font16",
          {"text_color", "text_opa", "text_font", "text_align"}) }

MenuStyles ==
  { Style("menu_button", NoStyle, {"radius", "bg_color", "bg_opa", "pad", "shadow"}),
    Style("menu_button_label", NoStyle, {"align", "text_font", "text_color", "text_opa"}) }

InfoStyles ==
  { Style("info_headline_label", NoStyle, {"text_color", "text_font"}),
    Style("info_content_label", NoStyle, {"text_font", "text_color"}),
    Style("back_button", NoStyle, {"bg_color", "bg_opa", "radius", "shadow"}) }

Styles == ColumnStyles \cup RowStyles \cup ScreenStyles \cup TextStyles
            \cup MenuStyles \cup InfoStyles

\* What a style sets, its base's properties included.
AllStyles == {StyleNames[i] : i \in 1..Len(StyleNames)} \cup {NoStyle}
StyleProps[name \in AllStyles] ==
  UNION {s.sets \cup StyleProps[s.base] : s \in {t \in Styles : t.name = name}}

\* No style is its own base, by however many steps: StyleProps is defined.
ASSUME StylesAssumption ==
  \A name \in AllStyles :
    StyleProps[name] = UNION {s.sets \cup StyleProps[s.base] : s \in {t \in Styles : t.name = name}}

----------------------------------------------------------------------------
(* Screens.                                                                *)

BootScreen ==
  { Screen("boot_screen", "flex_column_space_between", {}),
    Obj("boot.body", "boot_screen"), Obj("boot.center", "boot.body"),
    Image("boot_logo", "boot.center"),
    Label("boot_screen_version", "boot.center", "label_font16") }

\* Both main screens open the menu on a long press or on a swipe.
MainEvents == { <<"LONG_PRESSED", "action_switch_to_menu">>,
                <<"GESTURE", "action_home_screen_gesture">> }

NoNetworkScreen ==
  { Screen("no_network_screen", "flex_screen", MainEvents),
    Panel("no_network.body", "no_network_screen"),
    Panel("no_network_header_container", "no_network.body"),
    Image("no_network_header_logo", "no_network_header_container"),
    Panel("no_network_content_container", "no_network.body"),
    Image("no_network.ethernet", "no_network_content_container"),
    Label("no_network_title", "no_network_content_container", "label_font_bold30"),
    Label("home_info_ipv6_addr_1", "no_network_content_container", "label_font16") }

HomeHeader ==
  { Screen("home_screen", "flex_screen", MainEvents),
    Panel("home.body", "home_screen"),
    Panel("home_header_container", "home.body"),
    Image("home_header_logo", "home_header_container"),
    Panel("home.cloud", "home_header_container"),
    Image("cloud_status_icon", "home.cloud"),
    Label("cloud_status_label", "home.cloud", "label_font16") }

HomeInfo ==
  { Panel("home_info_container", "home.body"),
    Label("home_info_ipv4_addr", "home_info_container", "label_font_bold30"),
    Hidden(Label("home_info_ipv6_addr", "home_info_container", "label_font16")),
    Label("home_info_mac_addr", "home_info_container", "label_font16"),
    Panel("divider", "home.body") }

\* A status block: an indicator (icon and name) and the state below it.
StatusBlock(block, indicator, state) ==
  { Panel(block, "home_status_container"), Panel(indicator, block),
    Image(indicator \o ".icon", indicator),
    Label(indicator \o ".name", indicator, "label_font16"),
    Label(state, block, "label_font16") }

HomeUsb ==
  { Panel("home_status_container", "home.body") }
    \cup StatusBlock("usb_status", "usb_indicator", "usb_status_label")

HomeHdmi == StatusBlock("hdmi_status", "hdmi_indicator", "hdmi_status_label")

\* The top of every menu page: the page, its body, the header with a back
\* button and a title, and the container of its items.
Page(screen, header, container, gesture, event, back) ==
  { Screen(screen, "flex_screen_menu", {<<"GESTURE", gesture>>}),
    Obj(screen \o ".body", screen),
    Obj(header, screen \o ".body"),
    Button(screen \o ".back", header, "back_button", {<<event, back>>}),
    Image(screen \o ".caret", screen \o ".back"),
    Label(screen \o ".title", header, "header_link"),
    Obj(container, screen \o ".body") }

MenuButton(o, up, on) ==
  { Button(o, up, "menu_button", on), Label(o \o ".label", o, "menu_button_label") }

MenuPage ==
  Page("menu_screen", "menu_header_container", "menu_items_container",
       "action_menu_screen_gesture", "PRESSED", "action_menu_screen_gesture")

MenuItems ==
  { Obj("menu.items", "menu_items_container") }
    \cup MenuButton("menu_btn_status", "menu.items", {<<"CLICKED", "action_switch_to_status">>})
    \cup MenuButton("menu_btn_network", "menu.items", {})
    \cup MenuButton("menu_btn_access", "menu.items", {})
    \cup MenuButton("menu_btn_advanced", "menu.items",
                    {<<"CLICKED", "action_switch_to_advanced_menu">>})
    \cup MenuButton("menu_btn_about", "menu.items", {<<"CLICKED", "action_switch_to_about">>})

AdvancedPage ==
  Page("menu_advanced_screen", "menu_header_container_1", "menu_items_container_1",
       "action_menu_advanced_screen_gesture", "CLICKED", "action_switch_to_menu")

\* The two buttons of AdvancedHidden start hidden.
AdvancedHidden ==
  { Hidden(w) : w \in
      { Button("menu_btn_advanced_developer_mode", "advanced.items", "menu_button",
               {<<"PRESSED", "action_reset_config">>}),
        Button("menu_btn_advanced_usb_emulation", "advanced.items", "menu_button", {}) } }
    \cup { Obj("advanced.items", "menu_items_container_1"),
           Label("developer_mode.label", "menu_btn_advanced_developer_mode", "menu_button_label"),
           Label("usb_emulation.label", "menu_btn_advanced_usb_emulation", "menu_button_label") }

AdvancedItems ==
  MenuButton("menu_btn_advanced_reboot", "advanced.items",
             {<<"PRESSED", "action_switch_to_reboot">>})
    \cup MenuButton("menu_btn_dhcp_client", "advanced.items",
                    {<<"PRESSED", "action_switch_to_dhcpc">>})
    \cup MenuButton("menu_btn_advanced_reset_config", "advanced.items",
                    {<<"PRESSED", "action_switch_to_reset_config">>})

NetworkPage ==
  Page("menu_network_screen", "menu_header_container_2", "menu_items_container_2",
       "action_menu_advanced_screen_gesture", "CLICKED", "action_switch_to_menu")

NetworkItems ==
  { Obj("network.items", "menu_items_container_2") }
    \cup MenuButton("menu_btn_network_ipv4", "network.items", {})
    \cup MenuButton("menu_btn_network_ipv6", "network.items", {})
    \cup MenuButton("menu_btn_network_lldp", "network.items", {})

\* A fact: a container with a headline and the label that holds the value.
Fact(container, up, value) ==
  { Obj(container, up), Label(container \o ".headline", container, "info_headline_label"),
    Label(value, container, "info_content_label") }

AboutPage ==
  Page("about_screen", "about_header_container", "about_items_container",
       "action_about_screen_gesture", "CLICKED", "action_switch_to_menu")

AboutVersions ==
  { Obj("about.items", "about_items_container") }
    \cup Fact("system_version_container", "about.items", "system_version")
    \cup Fact("app_version_container", "about.items", "app_version")
    \cup Fact("build_branch_container", "about.items", "build_branch")

AboutBuild ==
  Fact("build_date_container", "about.items", "build_date")
    \cup Fact("golang_version_container", "about.items", "golang_version")
    \cup Fact("lvgl_version_container", "about.items", "lvgl_version")

AboutDevice ==
  Fact("kernel_version_container", "about.items", "kernel_version")
    \cup Fact("cpu_serial_container", "about.items", "cpu_serial")

StatusPage ==
  Page("status_screen", "status_header_container", "status_items_container",
       "action_about_screen_gesture", "CLICKED", "action_switch_to_menu")

StatusItems ==
  { Obj("status.items", "status_items_container") }
    \cup Fact("device_id_container", "status.items", "device_id")
    \cup { IF w.class = "obj" THEN Hidden(w) ELSE w :
             w \in Fact("cloud_account_id_container", "status.items", "app_version_1") }
    \cup Fact("cloud_domain_container", "status.items", "cloud_domain")

\* A button that has to be held for some seconds, and the label above it.
HoldItems(items, up, label, text, box, button, action) ==
  { Obj(items, up), Obj(label, items), Label(text, label, "info_content_label"),
    Obj(box, items),
    Button(button, box, NoStyle,
           {<<e, action>> : e \in {"PRESSED", "PRESSING", "RELEASED"}}) }

ResetConfigPage ==
  Page("reset_config_screen", "reset_config_header", "reset_config_container",
       "action_about_screen_gesture", "CLICKED", "action_switch_to_menu")

ResetConfigItems ==
  HoldItems("reset.items", "reset_config_container", "reset_config_label_container",
            "reset_config_label", "reset_config_button", "obj0", "action_reset_config")
    \cup { Hidden(Panel("reset_config_spinner", "reset.items")),
           Spinner("reset.spinner", "reset_config_spinner"),
           Label("reset.label", "obj0", NoStyle) }

RebootPage ==
  Page("reboot_screen", "reboot_header", "reboot_container",
       "action_about_screen_gesture", "CLICKED", "action_switch_to_menu")

RebootItems ==
  HoldItems("reboot.items", "reboot_container", "reboot_label_container",
            "reboot_label", "reboot_config_button", "obj1", "action_reboot")
    \cup { Label("reboot.label", "obj1", NoStyle) }

RebootingScreen ==
  { Screen("rebooting_screen", "flex_column_space_between", {}),
    Obj("rebooting.body", "rebooting_screen"), Obj("rebooting.center", "rebooting.body"),
    Image("reboot_in_progress_logo", "rebooting.center"),
    Label("reboot_in_progress_label", "rebooting.center", "label_font16") }

DhcpClientPage ==
  Page("switch_dhcp_client_screen", "dhcp_client_header", "dhcp_client_container",
       "action_about_screen_gesture", "CLICKED", "action_switch_to_menu")

DhcpClientItems ==
  HoldItems("dhcp.items", "dhcp_client_container", "dhcp_client_label_container",
            "dhcpc_label", "dhcp_client_button", "obj2", "action_dhcpc")
    \cup { Hidden(Panel("dhcp_client_spinner", "dhcp.items")),
           Spinner("dhcp.spinner", "dhcp_client_spinner"),
           Label("dhcp_client_change_label", "obj2", NoStyle) }

\* create_screens.
Widgets ==
  BootScreen \cup NoNetworkScreen
    \cup HomeHeader \cup HomeInfo \cup HomeUsb \cup HomeHdmi
    \cup MenuPage \cup MenuItems
    \cup AdvancedPage \cup AdvancedHidden \cup AdvancedItems
    \cup NetworkPage \cup NetworkItems
    \cup AboutPage \cup AboutVersions \cup AboutBuild \cup AboutDevice
    \cup StatusPage \cup StatusItems
    \cup ResetConfigPage \cup ResetConfigItems
    \cup RebootPage \cup RebootItems \cup RebootingScreen
    \cup DhcpClientPage \cup DhcpClientItems

\* enum ScreensEnum, in the order of objects_t and of tick_screen_funcs.
ScreenIds ==
  << "boot_screen", "no_network_screen", "home_screen", "menu_screen",
     "menu_advanced_screen", "menu_network_screen", "about_screen",
     "status_screen", "reset_config_screen", "reboot_screen",
     "rebooting_screen", "switch_dhcp_client_screen" >>
Screens == {ScreenIds[i] : i \in 1..Len(ScreenIds)}

\* objects_t: a pointer to every widget the code refers to by name.
Objects == {w.id : w \in Widgets}
objects == [o \in Objects |-> CHOOSE w \in Widgets : w.id = o]

\* A widget and the widgets around it, up to its screen.
Path[o \in Objects] ==
  {o} \cup (IF objects[o].up = Top THEN {} ELSE Path[objects[o].up])
PathOf == [o \in Objects |-> Path[o]]
ScreenOf == [o \in Objects |-> CHOOSE s \in Screens : s \in PathOf[o]]

\* Every widget stands on one screen, and no name is used twice.
ASSUME ScreensAssumption ==
  /\ objects \in [Objects -> Widgets] /\ \A v, w \in Widgets : v.id = w.id => v = w
  /\ PathOf \in [Objects -> SUBSET Objects]
  /\ ScreenOf \in [Objects -> Screens]
\* The path of a widget begins with itself and the widget around it.
ASSUME TreeAssumption ==
  \A o \in Objects : o \in PathOf[o] /\ (objects[o].up # Top => objects[o].up \in PathOf[o])
============================================================================
